---- MODULE Spec2Model ----
(***************************************************************************)
(* Witcher Tracker: a line-oriented command interpreter.  A raw line is    *)
(* tokenized into the global buffer Utils::words, classified (Exit,        *)
(* Question, Sentence, invalid) and applied to the Inventory (ingredient,  *)
(* trophy and potion ledgers, formula book, bestiary).                     *)
(*                                                                         *)
(* Strings are TLA+ strings; a character is a string of length 1.  C++     *)
(* int is 32 bits wide.                                                    *)
(***************************************************************************)
EXTENDS Integers, Sequences, FiniteSets, TLC

VARIABLES
    ingredients,    \* Inventory::ingredients    std::map<string,int>
    trophies,       \* Inventory::trophies       std::map<string,int>
    potion_counts,  \* Inventory::potion_counts  std::map<string,int>
    potions,        \* Inventory::potions        name -> Potion::ingredients (stored order)
    monsters,       \* Inventory::monsters       name -> [signs, potions]
    words,          \* Utils::words: the tokens of the line tokenized last
    word_count,     \* Utils::word_count: number of tokens of the current line
    line,           \* main: the line read last
    out,            \* the response printed for that line ("" when none)
    status          \* "running", "exited" (Exit / end of input), "crashed" (abnormal termination)

vars == <<ingredients, trophies, potion_counts, potions, monsters,
          words, word_count, line, out, status>>

world == <<ingredients, trophies, potion_counts, potions, monsters>>

(* Bounds of the explored input and state space.                           *)

MaxCnt == 2        \* count tokens of the generated lines range over 1..MaxCnt
MaxIng == 2        \* lines are explored while an ingredient count stays <= MaxIng
MaxTrophy == 2     \* encounters are explored while a trophy count stays <= MaxTrophy
MaxPotion == 1     \* brews are explored while a potion stock stays <= MaxPotion
MaxLen == 3        \* the tokenizer is run on every string of up to MaxLen characters
MaxStock == 8      \* the lines of the recipe vocabulary are explored while a count stays <= MaxStock

(* Characters, integers and strings as the C++ library treats them.        *)

INT_MAX == 2147483647

\* a + b of two ints leaves the range of int (b > 0): undefined behaviour in C++
AddOverflows(a, b) == a > INT_MAX - b
\* the two's complement result a + b - 2^32 of such an addition
AddWrapped(a, b) == ((a - INT_MAX) + (b - INT_MAX)) - 2

\* the % operator of C++ (truncated division: the sign follows the dividend)
CRem(a, b) == IF a >= 0 THEN a % b ELSE -((-a) % b)

Upper == "ABCDEFGHIJKLMNOPQRSTUVWXYZ"
Lower == "abcdefghijklmnopqrstuvwxyz"
Digits == "0123456789"
\* the characters of the modelled lines in ascending char order
Ascii == "\t ,0123456789?" \o Upper \o Lower

CharAt(s, i) == SubSeq(s, i, i)
CharsOf(s) == {CharAt(s, i) : i \in 1..Len(s)}

isalpha == CharsOf(Upper) \cup CharsOf(Lower)
isdigit == CharsOf(Digits)
\* the characters \s of the regex matches (the vertical tab cannot be written here)
isspace == {" ", "\t", "\n", "\r", "\f"}

Ord(c) == CHOOSE i \in 1..Len(Ascii) : CharAt(Ascii, i) = c

\* std::string operator< : lexicographic on chars
RECURSIVE StrLess(_, _)
StrLess(a, b) ==
    IF b = "" THEN FALSE
    ELSE IF a = "" THEN TRUE
    ELSE IF Head(a) = Head(b) THEN StrLess(Tail(a), Tail(b))
    ELSE Ord(Head(a)) < Ord(Head(b))

\* std::string::find: 0-based index of the first occurrence of w in s (w occurs in s)
Find(s, w) == (CHOOSE i \in 1..Len(s) :
                  /\ SubSeq(s, i, i + Len(w) - 1) = w
                  /\ \A j \in 1..(i-1) : SubSeq(s, j, j + Len(w) - 1) # w) - 1

\* value of a digit string, or -1 once it exceeds INT_MAX
RECURSIVE DigitsValue(_, _)
DigitsValue(s, acc) ==
    IF s = "" THEN acc
    ELSE LET d == Ord(Head(s)) - Ord("0") IN
         IF acc > (INT_MAX - d) \div 10 THEN -1
         ELSE DigitsValue(Tail(s), 10 * acc + d)

\* std::stoi on a digits-only string: throws std::invalid_argument on "" and
\* std::out_of_range above INT_MAX
StoiThrows(s) == s = "" \/ DigitsValue(s, 0) = -1
stoi(s) == DigitsValue(s, 0)

is_alphabetical(str) == \A i \in 1..Len(str) : CharAt(str, i) \in isalpha
is_integer(str) == \A i \in 1..Len(str) : CharAt(str, i) \in isdigit

(* Tokenizer: regex [^\s,?]+|[?,] matched left to right.                   *)

\* the tokenizer of the regex [^\s,?]+ alone: commas and question marks
\* end a token and are dropped
RECURSIVE SplitFrom_dropping(_, _, _)
SplitFrom_dropping(rest, cur, acc) ==
    LET flushed == IF cur = "" THEN acc ELSE Append(acc, cur) IN
    IF rest = "" THEN flushed
    ELSE IF Head(rest) \in isspace \cup {",", "?"}
    THEN SplitFrom_dropping(Tail(rest), "", flushed)
    ELSE SplitFrom_dropping(Tail(rest), cur \o Head(rest), acc)

RECURSIVE SplitFrom(_, _, _)
SplitFrom(rest, cur, acc) ==
    LET flushed == IF cur = "" THEN acc ELSE Append(acc, cur) IN
    IF rest = "" THEN flushed
    ELSE IF Head(rest) \in isspace THEN SplitFrom(Tail(rest), "", flushed)
    ELSE IF Head(rest) \in {",", "?"} THEN SplitFrom(Tail(rest), "", Append(flushed, Head(rest)))
    ELSE SplitFrom(Tail(rest), cur \o Head(rest), acc)

split_line(l) == SplitFrom(l, "", <<>>)


(* Reads of the token buffer.  Utils::words[i] is an unchecked vector      *)
(* access: at i >= word_count it is undefined behaviour.  split_line       *)
(* clears the vector without releasing its storage, so such a read finds   *)
(* what an earlier, longer line left in the slot, or nothing that is a     *)
(* token (modelled by the empty string), or it ends the program.  The      *)
(* classifier and the handlers are given w = the tokens of the line        *)
(* followed by the stale slots (pad); n is word_count.                     *)

Garbage == ""
W(w, i) == IF i < Len(w) THEN w[i + 1] ELSE Garbage

is_valid_potion_name(l, w, start_index, end_index) ==
    LET start_word == W(w, start_index)
        end_word == W(w, end_index)
        start_index_in_line == Find(l, start_word)
        end_index_in_line == Find(l, end_word) + Len(end_word) - 1
    IN  /\ \A i \in start_index..end_index : is_alphabetical(W(w, i))
        /\ \A i \in start_index_in_line..(end_index_in_line - 1) :
              ~(CharAt(l, i + 1) = " " /\ CharAt(l, i + 2) = " ")

\* detect_type that takes every line starting with Exit for the Exit command
detect_type_by_first(w, n) ==
    IF n = 0 THEN -1
    ELSE IF W(w, 0) = "Exit" THEN 2
    ELSE IF W(w, n - 1) = "?" THEN 1
    ELSE 0

detect_type(w, n) ==
    IF n = 0 THEN -1
    ELSE IF W(w, n - 1) = "?" THEN 1
    ELSE IF W(w, 0) = "Exit" /\ n = 1 THEN 2
    ELSE 0

(* The validators answer "true", "false" or "throw" (std::stoi threw: the  *)
(* exception is caught nowhere and the program terminates).                *)

RECURSIVE loot_groups(_, _, _)
loot_groups(w, n, curr_index) ==
    IF ~(curr_index < n - 1) THEN "true"
    ELSE IF ~is_integer(W(w, curr_index)) THEN "false"
    ELSE IF StoiThrows(W(w, curr_index)) THEN "throw"
    ELSE IF stoi(W(w, curr_index)) <= 0 THEN "false"
    ELSE IF ~is_alphabetical(W(w, curr_index + 1)) THEN "false"
    ELSE IF curr_index + 2 < n - 1 /\ W(w, curr_index + 2) # "," THEN "false"
    ELSE loot_groups(w, n, curr_index + 3)

is_valid_loot(w, n) ==
    IF CRem(n, 3) # 1 \/ n < 4 THEN "false" ELSE loot_groups(w, n, 2)

\* first loop of is_valid_trade: [r, next (index after "for"), oob (a read at
\* an index >= word_count happened)]
RECURSIVE trade_trophies(_, _, _)
trade_trophies(w, n, curr_index) ==
    LET res(r, last) == [r |-> r, next |-> curr_index + 4, oob |-> last >= n] IN
    IF ~is_integer(W(w, curr_index)) THEN res("false", curr_index)
    ELSE IF StoiThrows(W(w, curr_index)) THEN res("throw", curr_index)
    ELSE IF stoi(W(w, curr_index)) <= 0 THEN res("false", curr_index)
    ELSE IF ~is_alphabetical(W(w, curr_index + 1)) THEN res("false", curr_index + 1)
    ELSE IF W(w, curr_index + 3) = "for"
         THEN (IF W(w, curr_index + 2) # "trophy" THEN res("false", curr_index + 3)
               ELSE res("true", curr_index + 3))
    ELSE IF W(w, curr_index + 2) # "," THEN res("false", curr_index + 3)
    ELSE trade_trophies(w, n, curr_index + 3)

RECURSIVE trade_ingredients(_, _, _)
trade_ingredients(w, n, curr_index) ==
    IF ~(curr_index < n - 1) THEN "true"
    ELSE IF ~is_integer(W(w, curr_index)) THEN "false"
    ELSE IF StoiThrows(W(w, curr_index)) THEN "throw"
    ELSE IF stoi(W(w, curr_index)) <= 0 THEN "false"
    ELSE IF ~is_alphabetical(W(w, curr_index + 1)) THEN "false"
    ELSE IF curr_index + 2 < n - 1 /\ W(w, curr_index + 2) # "," THEN "false"
    ELSE trade_ingredients(w, n, curr_index + 3)

is_valid_trade(w, n) ==
    LET t == trade_trophies(w, n, 2) IN
    IF t.r # "true" THEN [r |-> t.r, oob |-> t.oob]
    ELSE IF CRem(n - t.next, 3) # 2 THEN [r |-> "false", oob |-> t.oob]
    ELSE [r |-> trade_ingredients(w, n, t.next), oob |-> t.oob]

is_valid_sign_knowledge(w, n) ==
    IF n # 8 THEN FALSE
    ELSE IF W(w, 4) = "is" /\ W(w, 5) = "effective" /\ W(w, 6) = "against"
         THEN is_alphabetical(W(w, 2)) /\ is_alphabetical(W(w, 7))
    ELSE FALSE

\* [r, oob]; curr_index is the index of the token "potion"
is_valid_potion_knowledge(w, n, curr_index) ==
    IF W(w, curr_index + 2) # "effective" THEN [r |-> FALSE, oob |-> curr_index + 2 >= n]
    ELSE IF W(w, curr_index + 3) # "against" THEN [r |-> FALSE, oob |-> curr_index + 3 >= n]
    ELSE [r |-> /\ W(w, curr_index + 4) = W(w, n - 1)
                /\ is_alphabetical(W(w, curr_index + 4)),
          oob |-> curr_index + 4 >= n]

RECURSIVE recipe_groups(_, _, _)
recipe_groups(w, n, curr_index) ==
    IF ~(curr_index <= n - 1) THEN "true"
    ELSE IF ~is_integer(W(w, curr_index)) THEN "false"
    ELSE IF StoiThrows(W(w, curr_index)) THEN "throw"
    ELSE IF stoi(W(w, curr_index)) <= 0 THEN "false"
    ELSE IF ~is_alphabetical(W(w, curr_index + 1)) THEN "false"
    ELSE IF curr_index + 2 <= n - 1 /\ W(w, curr_index + 2) # "," THEN "false"
    ELSE recipe_groups(w, n, curr_index + 3)

is_valid_potion_recipe(w, n, curr_index) ==
    IF CRem(n - curr_index, 3) # 2 THEN "false" ELSE recipe_groups(w, n, curr_index)

is_valid_encounter(w, n) == n = 4 /\ is_alphabetical(W(w, 3))

\* index of the first token "potion" from index from on (one exists below n)
RECURSIVE potion_index(_, _)
potion_index(w, from) == IF W(w, from) = "potion" THEN from ELSE potion_index(w, from + 1)

THROWN == -2    \* not a return value: std::stoi threw inside the validator

Ret(r, oob) == [r |-> r, oob |-> oob]
Tri(v, k) == IF v = "throw" THEN THROWN ELSE IF v = "true" THEN k ELSE -1

\* the branch of detect_sentence_type for "Geralt learns ..." lines
detect_learns(l, w, n) ==
    IF n < 8 THEN Ret(-1, FALSE)
    ELSE IF W(w, 3) = "sign" THEN Ret(IF is_valid_sign_knowledge(w, n) THEN 3 ELSE -1, FALSE)
    ELSE IF ~(\E i \in 2..(n - 1) : W(w, i) = "potion") THEN Ret(-1, FALSE)
    ELSE LET curr_index == potion_index(w, 2) IN
         IF ~is_valid_potion_name(l, w, 2, curr_index - 1) THEN Ret(-1, FALSE)
         ELSE IF W(w, curr_index + 1) = "is"
              THEN LET k == is_valid_potion_knowledge(w, n, curr_index) IN
                   Ret(IF k.r THEN 4 ELSE -1, k.oob)
         ELSE IF W(w, curr_index + 1) # "consists" THEN Ret(-1, curr_index + 1 >= n)
         ELSE IF W(w, curr_index + 2) # "of" THEN Ret(-1, curr_index + 2 >= n)
         ELSE Ret(Tri(is_valid_potion_recipe(w, n, curr_index + 3), 5), curr_index + 2 >= n)

\* detect_sentence_type without the test of the first token
detect_sentence_type_any_first(l, w, n) ==
    IF n <= 2 THEN Ret(-1, FALSE)
    ELSE IF W(w, 2) = "," THEN Ret(-1, FALSE)
    ELSE IF W(w, n - 1) = "," THEN Ret(-1, FALSE)
    ELSE IF W(w, 1) = "loots" THEN Ret(Tri(is_valid_loot(w, n), 0), FALSE)
    ELSE IF W(w, 1) = "trades"
         THEN LET t == is_valid_trade(w, n) IN Ret(Tri(t.r, 1), t.oob)
    ELSE IF W(w, 1) = "brews"
         THEN Ret(IF is_valid_potion_name(l, w, 2, n - 1) THEN 2 ELSE -1, FALSE)
    ELSE IF W(w, 1) = "learns" THEN detect_learns(l, w, n)
    ELSE IF W(w, 1) = "encounters" /\ W(w, 2) = "a"
         THEN Ret(IF is_valid_encounter(w, n) THEN 6 ELSE -1, FALSE)
    ELSE Ret(-1, FALSE)

\* [r: -1 invalid, 0 loot, 1 trade, 2 brew, 3 sign knowledge, 4 potion
\*  knowledge, 5 potion recipe, 6 encounter, or THROWN; oob]
detect_sentence_type(l, w, n) ==
    IF W(w, 0) # "Geralt" THEN Ret(-1, FALSE)
    ELSE IF n <= 2 THEN Ret(-1, FALSE)
    ELSE IF W(w, 2) = "," THEN Ret(-1, FALSE)
    ELSE IF W(w, n - 1) = "," THEN Ret(-1, FALSE)
    ELSE IF W(w, 1) = "loots" THEN Ret(Tri(is_valid_loot(w, n), 0), FALSE)
    ELSE IF W(w, 1) = "trades"
         THEN LET t == is_valid_trade(w, n) IN Ret(Tri(t.r, 1), t.oob)
    ELSE IF W(w, 1) = "brews"
         THEN Ret(IF is_valid_potion_name(l, w, 2, n - 1) THEN 2 ELSE -1, FALSE)
    ELSE IF W(w, 1) = "learns" THEN detect_learns(l, w, n)
    ELSE IF W(w, 1) = "encounters" /\ W(w, 2) = "a"
         THEN Ret(IF is_valid_encounter(w, n) THEN 6 ELSE -1, FALSE)
    ELSE Ret(-1, FALSE)

\* index of the first token "?" from index from on (the last token is "?")
RECURSIVE question_index(_, _)
question_index(w, from) == IF W(w, from) = "?" THEN from ELSE question_index(w, from + 1)

\* -1 invalid, 0/1 specific/total ingredient, 2/3 potion, 4/5 trophy,
\* 6 monster knowledge, 7 potion formula
detect_question_type(l, w, n) ==
    IF W(w, 0) = "Total" /\ W(w, 1) = "ingredient" /\ W(w, 2) # "?" /\ n = 4
    THEN (IF is_alphabetical(W(w, 2)) THEN 0 ELSE -1)
    ELSE IF W(w, 0) = "Total" /\ W(w, 1) = "ingredient" /\ W(w, 2) = "?" /\ n = 3 THEN 1
    ELSE IF W(w, 0) = "Total" /\ W(w, 1) = "potion"
         THEN (IF n = 3 /\ W(w, 2) = "?" THEN 3
               ELSE IF ~is_valid_potion_name(l, w, 2, n - 2) THEN -1
               ELSE IF W(w, n - 1) # "?" THEN -1
               ELSE 2)
    ELSE IF W(w, 0) = "Total" /\ W(w, 1) = "trophy" /\ n = 3 /\ W(w, 2) = "?" THEN 5
    ELSE IF W(w, 0) = "Total" /\ W(w, 1) = "trophy" /\ n = 4 /\ is_alphabetical(W(w, 2))
         THEN (IF W(w, n - 1) # "?" THEN -1 ELSE 4)
    ELSE IF W(w, 0) = "What" /\ W(w, 1) = "is" /\ W(w, 2) = "effective" /\ W(w, 3) = "against"
         THEN (IF n # 6 THEN -1 ELSE IF ~is_alphabetical(W(w, 4)) THEN -1 ELSE 6)
    ELSE IF W(w, 0) = "What" /\ W(w, 1) = "is" /\ W(w, 2) = "in"
         THEN LET curr_index == question_index(w, 3) IN
              IF ~is_valid_potion_name(l, w, 3, curr_index - 1) THEN -1
              ELSE IF n = curr_index + 1 THEN 7
              ELSE -1
    ELSE -1

(* std::map<std::string, T> as a function on the set of its keys.          *)

EmptyMap == [k \in {} |-> 0]
Put(m, k, v) == [x \in (DOMAIN m) \cup {k} |-> IF x = k THEN v ELSE m[x]]
Erase(m, k) == [x \in (DOMAIN m) \ {k} |-> m[x]]

\* the elements of a set of strings in ascending order (iteration order of
\* std::map and std::set)
RECURSIVE Ascending(_)
Ascending(S) ==
    IF S = {} THEN <<>>
    ELSE LET m == CHOOSE x \in S : \A y \in S \ {x} : StrLess(x, y)
         IN <<m>> \o Ascending(S \ {m})

\* words[from] .. words[to] joined by single spaces
RECURSIVE JoinWords(_, _, _)
JoinWords(w, from, to) ==
    IF from > to THEN ""
    ELSE IF from = to THEN W(w, from)
    ELSE W(w, from) \o " " \o JoinWords(w, from + 1, to)

RECURSIVE JoinComma(_)
JoinComma(items) ==
    IF items = <<>> THEN ""
    ELSE IF Len(items) = 1 THEN items[1]
    ELSE items[1] \o ", " \o JoinComma(Tail(items))

(* Potion: the formula is a vector of <<ingredient, quantity>> pairs.      *)

\* the comparator without the rule for equal quantities
Before_by_quantity(a, b) == a[2] > b[2]

\* the comparator of Potion::get_ingredients
Before(a, b) == IF a[2] = b[2] THEN StrLess(a[1], b[1]) ELSE a[2] > b[2]

RECURSIVE InsertPair(_, _)
InsertPair(sorted, p) ==
    IF sorted = <<>> THEN <<p>>
    ELSE IF Before(p, Head(sorted)) THEN <<p>> \o sorted
    ELSE <<Head(sorted)>> \o InsertPair(Tail(sorted), p)

RECURSIVE SortPairs(_)
SortPairs(v) == IF v = <<>> THEN <<>> ELSE InsertPair(SortPairs(Tail(v)), Head(v))

\* Potion::get_ingredients: std::sort on the member vector (sort_member is
\* the member after the call), then "return ingredients" (get_ingredients is
\* the value returned)
sort_member(stored) == SortPairs(stored)
\* get_ingredients returning the list as it was before the sort
get_ingredients_unsorted(stored) == stored
get_ingredients(stored) == sort_member(stored)

\* Inventory::potions after a call of potions[name].get_ingredients()
AfterGet(pots, name) == Put(pots, name, sort_member(pots[name]))

(* Inventory: ledger updates.  An addition that overflows int is undefined *)
(* behaviour: acc.ovf records it, acc.ing holds the wrapped outcome.       *)

add_ingredient(acc, name, count) ==
    IF name \in DOMAIN acc.ing
    THEN (IF AddOverflows(acc.ing[name], count)
          THEN [ing |-> Put(acc.ing, name, AddWrapped(acc.ing[name], count)), ovf |-> TRUE]
          ELSE [ing |-> Put(acc.ing, name, acc.ing[name] + count), ovf |-> acc.ovf])
    ELSE [ing |-> Put(acc.ing, name, count), ovf |-> acc.ovf]

\* the loop "while (curr_index < word_count - 1)" of handle_loot and handle_trade
RECURSIVE add_groups(_, _, _, _)
add_groups(w, n, curr_index, acc) ==
    IF ~(curr_index < n - 1) THEN acc
    ELSE add_groups(w, n, curr_index + 3,
                    add_ingredient(acc, W(w, curr_index + 1), stoi(W(w, curr_index))))

handle_loot(w, n, ing) == add_groups(w, n, 2, [ing |-> ing, ovf |-> FALSE])

decrease_trophy(troph, name, count) ==
    IF name \in DOMAIN troph
    THEN (IF troph[name] - count <= 0 THEN Erase(troph, name)
          ELSE Put(troph, name, troph[name] - count))
    ELSE troph

\* use_ingredient that keeps an entry whose count reached 0
use_ingredient_keeping(ing, name, count) ==
    IF name \in DOMAIN ing THEN Put(ing, name, ing[name] - count) ELSE ing

use_ingredient(ing, name, count) ==
    IF name \in DOMAIN ing
    THEN (IF ing[name] - count <= 0 THEN Erase(ing, name)
          ELSE Put(ing, name, ing[name] - count))
    ELSE ing

\* first loop of handle_trade: [ok, to_trade (the map trophies_to_trade), next]
RECURSIVE trade_check(_, _, _, _)
trade_check(w, troph, curr_index, to_trade) ==
    LET cnt == stoi(W(w, curr_index))
        trophy == W(w, curr_index + 1)
    IN  IF trophy \notin DOMAIN troph \/ troph[trophy] < cnt
        THEN [ok |-> FALSE, to_trade |-> to_trade, next |-> curr_index]
        ELSE IF W(w, curr_index + 3) = "for"
        THEN [ok |-> TRUE, to_trade |-> Put(to_trade, trophy, cnt), next |-> curr_index + 4]
        ELSE trade_check(w, troph, curr_index + 3, Put(to_trade, trophy, cnt))

\* "for (pair : trophies_to_trade) decrease_trophy(pair.first, pair.second)"
RECURSIVE decrease_all(_, _, _)
decrease_all(troph, to_trade, names) ==
    IF names = <<>> THEN troph
    ELSE decrease_all(decrease_trophy(troph, Head(names), to_trade[Head(names)]),
                      to_trade, Tail(names))

\* handle_trade that takes the trophies of the groups it has checked even
\* when a later group stops the trade
handle_trade_taking(w, n, troph, ing) ==
    LET c == trade_check(w, troph, 2, EmptyMap) IN
    IF ~c.ok
    THEN [out |-> "Not enough trophies",
          troph |-> decrease_all(troph, c.to_trade, Ascending(DOMAIN c.to_trade)),
          ing |-> ing, ovf |-> FALSE]
    ELSE LET a == add_groups(w, n, c.next, [ing |-> ing, ovf |-> FALSE]) IN
         [out |-> "Trade successful",
          troph |-> decrease_all(troph, c.to_trade, Ascending(DOMAIN c.to_trade)),
          ing |-> a.ing, ovf |-> a.ovf]

\* [out, troph, ing, ovf]
handle_trade(w, n, troph, ing) ==
    LET c == trade_check(w, troph, 2, EmptyMap) IN
    IF ~c.ok
    THEN [out |-> "Not enough trophies", troph |-> troph, ing |-> ing, ovf |-> FALSE]
    ELSE LET a == add_groups(w, n, c.next, [ing |-> ing, ovf |-> FALSE]) IN
         [out |-> "Trade successful",
          troph |-> decrease_all(troph, c.to_trade, Ascending(DOMAIN c.to_trade)),
          ing |-> a.ing, ovf |-> a.ovf]

\* "for (pair : ingredients_needed) if (absent or ingredients[name] < count)"
brew_short(ing, needed) ==
    \E i \in 1..Len(needed) :
        needed[i][1] \notin DOMAIN ing \/ ing[needed[i][1]] < needed[i][2]

RECURSIVE use_all(_, _)
use_all(ing, needed) ==
    IF needed = <<>> THEN ing
    ELSE use_all(use_ingredient(ing, Head(needed)[1], Head(needed)[2]), Tail(needed))

\* potion_counts[potion_name]++
increment(counts, name) ==
    Put(counts, name, (IF name \in DOMAIN counts THEN counts[name] ELSE 0) + 1)

\* handle_brew that uses the ingredients it has enough of even when
\* another one is short
handle_brew_using(pots, ing, counts, potion_name) ==
    IF potion_name \notin DOMAIN pots
    THEN [out |-> "No formula for " \o potion_name,
          pots |-> pots, ing |-> ing, counts |-> counts]
    ELSE LET ingredients_needed == get_ingredients(pots[potion_name])
             Enough(e) == e[1] \in DOMAIN ing /\ ing[e[1]] >= e[2]
         IN  IF brew_short(ing, ingredients_needed)
             THEN [out |-> "Not enough ingredients",
                   pots |-> AfterGet(pots, potion_name),
                   ing |-> use_all(ing, SelectSeq(ingredients_needed, Enough)),
                   counts |-> counts]
             ELSE [out |-> "Alchemy item created: " \o potion_name,
                   pots |-> AfterGet(pots, potion_name),
                   ing |-> use_all(ing, ingredients_needed),
                   counts |-> increment(counts, potion_name)]

\* [out, pots, ing, counts]
\* handle_brew that looks the formula up with potions[potion_name] before
\* the test for its presence, which creates an empty formula
handle_brew_inserting(pots, ing, counts, potion_name) ==
    IF potion_name \notin DOMAIN pots
    THEN [out |-> "No formula for " \o potion_name,
          pots |-> Put(pots, potion_name, <<>>), ing |-> ing, counts |-> counts]
    ELSE LET ingredients_needed == get_ingredients(pots[potion_name]) IN
         IF brew_short(ing, ingredients_needed)
         THEN [out |-> "Not enough ingredients",
               pots |-> AfterGet(pots, potion_name), ing |-> ing, counts |-> counts]
         ELSE [out |-> "Alchemy item created: " \o potion_name,
               pots |-> AfterGet(pots, potion_name),
               ing |-> use_all(ing, ingredients_needed),
               counts |-> increment(counts, potion_name)]

handle_brew(pots, ing, counts, potion_name) ==
    IF potion_name \notin DOMAIN pots
    THEN [out |-> "No formula for " \o potion_name,
          pots |-> pots, ing |-> ing, counts |-> counts]
    ELSE LET ingredients_needed == get_ingredients(pots[potion_name]) IN
         IF brew_short(ing, ingredients_needed)
         THEN [out |-> "Not enough ingredients",
               pots |-> AfterGet(pots, potion_name), ing |-> ing, counts |-> counts]
         ELSE [out |-> "Alchemy item created: " \o potion_name,
               pots |-> AfterGet(pots, potion_name),
               ing |-> use_all(ing, ingredients_needed),
               counts |-> increment(counts, potion_name)]

\* learn that stores the new entry before the sign or potion is added to it
learn_forgetting(mons, monster_name, field, name) ==
    IF monster_name \notin DOMAIN mons
    THEN [out |-> "New bestiary entry added: " \o monster_name,
          mons |-> Put(mons, monster_name, [signs |-> {}, potions |-> {}])]
    ELSE IF name \notin mons[monster_name][field]
    THEN [out |-> "Bestiary entry updated: " \o monster_name,
          mons |-> [mons EXCEPT ![monster_name][field] = @ \cup {name}]]
    ELSE [out |-> "Already known effectiveness", mons |-> mons]

\* learn whose update keeps only the field it writes
learn_rebuilding(mons, monster_name, field, name) ==
    IF monster_name \notin DOMAIN mons
    THEN [out |-> "New bestiary entry added: " \o monster_name,
          mons |-> Put(mons, monster_name,
                       [[signs |-> {}, potions |-> {}] EXCEPT ![field] = {name}])]
    ELSE IF name \notin mons[monster_name][field]
    THEN [out |-> "Bestiary entry updated: " \o monster_name,
          mons |-> Put(mons, monster_name,
                       [[signs |-> {}, potions |-> {}]
                            EXCEPT ![field] = mons[monster_name][field] \cup {name}])]
    ELSE [out |-> "Already known effectiveness", mons |-> mons]

\* the body shared by handle_sign_knowledge (field "signs") and
\* handle_potion_knowledge (field "potions"): [out, mons]
learn(mons, monster_name, field, name) ==
    IF monster_name \notin DOMAIN mons
    THEN [out |-> "New bestiary entry added: " \o monster_name,
          mons |-> Put(mons, monster_name,
                       [[signs |-> {}, potions |-> {}] EXCEPT ![field] = {name}])]
    ELSE IF name \notin mons[monster_name][field]
    THEN [out |-> "Bestiary entry updated: " \o monster_name,
          mons |-> [mons EXCEPT ![monster_name][field] = @ \cup {name}]]
    ELSE [out |-> "Already known effectiveness", mons |-> mons]

handle_sign_knowledge(mons, w) == learn(mons, W(w, 7), "signs", W(w, 2))

\* index of the first token "potion" from index from on
RECURSIVE potion_at(_, _)
potion_at(w, from) == IF W(w, from) = "potion" THEN from ELSE potion_at(w, from + 1)

\* handle_potion_knowledge that keeps potions in the set of the signs
handle_potion_knowledge_as_sign(mons, w) ==
    LET curr_index == potion_at(w, 2) IN
    learn(mons, W(w, curr_index + 4), "signs", JoinWords(w, 2, curr_index - 1))

handle_potion_knowledge(mons, w) ==
    LET curr_index == potion_at(w, 2) IN
    learn(mons, W(w, curr_index + 4), "potions", JoinWords(w, 2, curr_index - 1))

\* groups of handle_potion_recipe: "while (curr_index < word_count - 1) push_back({ing, cnt})"
RECURSIVE formula_groups(_, _, _)
formula_groups(w, n, curr_index) ==
    IF ~(curr_index < n - 1) THEN <<>>
    ELSE <<<<W(w, curr_index + 1), stoi(W(w, curr_index))>>>>
         \o formula_groups(w, n, curr_index + 3)

\* [out, pots]
handle_potion_recipe(pots, w, n) ==
    LET curr_index == potion_at(w, 2)
        potion_name == JoinWords(w, 2, curr_index - 1)
    IN  IF potion_name \in DOMAIN pots /\ Len(get_ingredients(pots[potion_name])) > 0
        THEN [out |-> "Already known formula", pots |-> AfterGet(pots, potion_name)]
        ELSE [out |-> "New alchemy formula obtained: " \o potion_name,
              pots |-> Put(pots, potion_name, formula_groups(w, n, curr_index + 3))]

RECURSIVE use_potions(_, _)
use_potions(counts, names) ==
    IF names = <<>> THEN counts
    ELSE LET potion == Head(names) IN
         IF potion \in DOMAIN counts /\ counts[potion] > 0
         THEN use_potions(IF counts[potion] - 1 = 0 THEN Erase(counts, potion)
                          ELSE Put(counts, potion, counts[potion] - 1), Tail(names))
         ELSE use_potions(counts, Tail(names))

\* use_one_potion_each that stops after the first potion it finds in stock
use_first_potion(counts, mons, monster_name) ==
    LET stocked == SelectSeq(Ascending(mons[monster_name].potions),
                             LAMBDA p : p \in DOMAIN counts /\ counts[p] > 0)
    IN  use_potions(counts, IF stocked = <<>> THEN <<>> ELSE <<Head(stocked)>>)

use_one_potion_each(counts, mons, monster_name) ==
    use_potions(counts, Ascending(mons[monster_name].potions))

\* the test without the look at the potion stock
unprepared_by_knowledge(mons, counts, monster_name) ==
    \/ monster_name \notin DOMAIN mons
    \/ (mons[monster_name].signs = {} /\ mons[monster_name].potions = {})

\* the test of handle_encounter that answers "unprepared"
unprepared(mons, counts, monster_name) ==
    \/ monster_name \notin DOMAIN mons
    \/ (mons[monster_name].signs = {} /\ mons[monster_name].potions = {})
    \/ /\ mons[monster_name].signs = {}
       /\ ~(\E potion \in mons[monster_name].potions :
                potion \in DOMAIN counts /\ counts[potion] > 0)

\* handle_encounter that uses potions only when no sign is recorded
handle_encounter_by_sign(mons, counts, troph, monster_name) ==
    IF unprepared(mons, counts, monster_name)
    THEN [out |-> "Geralt is unprepared and barely escapes with his life",
          counts |-> counts, troph |-> troph]
    ELSE [out |-> "Geralt defeats " \o monster_name,
          counts |-> IF mons[monster_name].signs = {}
                     THEN use_one_potion_each(counts, mons, monster_name)
                     ELSE counts,
          troph |-> increment(troph, monster_name)]

\* [out, counts, troph]
handle_encounter(mons, counts, troph, monster_name) ==
    IF unprepared(mons, counts, monster_name)
    THEN [out |-> "Geralt is unprepared and barely escapes with his life",
          counts |-> counts, troph |-> troph]
    ELSE [out |-> "Geralt defeats " \o monster_name,
          counts |-> use_one_potion_each(counts, mons, monster_name),
          troph |-> increment(troph, monster_name)]

(* Inventory: the text of the answers to the questions.                    *)

Entry(count, name) == ToString(count) \o " " \o name

get_count(m, name) == IF name \in DOMAIN m THEN m[name] ELSE 0

\* print_map that goes through the entries from the last key to the first
print_map_backwards(m) ==
    IF DOMAIN m = {} THEN "None"
    ELSE LET keys == Ascending(DOMAIN m) IN
         JoinComma([i \in 1..Len(keys) |->
                        Entry(m[keys[Len(keys) + 1 - i]], keys[Len(keys) + 1 - i])])

print_map(m) ==
    IF DOMAIN m = {} THEN "None"
    ELSE LET keys == Ascending(DOMAIN m) IN
         JoinComma([i \in 1..Len(keys) |-> Entry(m[keys[i]], keys[i])])

\* std::merge of two ascending sequences
RECURSIVE Merge(_, _)
Merge(a, b) ==
    IF a = <<>> THEN b
    ELSE IF b = <<>> THEN a
    ELSE IF StrLess(Head(b), Head(a)) THEN <<Head(b)>> \o Merge(a, Tail(b))
    ELSE <<Head(a)>> \o Merge(Tail(a), b)

\* print_monster_knowledge that lists the union of the two sets
print_monster_knowledge_union(mons, monster_name) ==
    IF monster_name \notin DOMAIN mons THEN "No knowledge of " \o monster_name
    ELSE IF mons[monster_name].signs = {} /\ mons[monster_name].potions = {}
    THEN "No knowledge of " \o monster_name
    ELSE JoinComma(Ascending(mons[monster_name].signs \cup mons[monster_name].potions))

print_monster_knowledge(mons, monster_name) ==
    IF monster_name \notin DOMAIN mons THEN "No knowledge of " \o monster_name
    ELSE IF mons[monster_name].signs = {} /\ mons[monster_name].potions = {}
    THEN "No knowledge of " \o monster_name
    ELSE JoinComma(Merge(Ascending(mons[monster_name].signs),
                         Ascending(mons[monster_name].potions)))

\* Inventory::potions after print_potion_formula: get_ingredients is called
\* when the potion has an entry
formula_read(pots, potion_name) ==
    IF potion_name \in DOMAIN pots THEN AfterGet(pots, potion_name) ELSE pots

print_potion_formula(pots, potion_name) ==
    IF potion_name \notin DOMAIN pots THEN "No formula for " \o potion_name
    ELSE LET ings == get_ingredients(pots[potion_name]) IN
         IF ings = <<>> THEN "No formula for " \o potion_name
         ELSE JoinComma([i \in 1..Len(ings) |-> Entry(ings[i][2], ings[i][1])])

(* The input lines of the explored sessions.                               *)

Cnt == {ToString(c) : c \in 1..MaxCnt}
IngredientNames == {"Rebis", "Vitriol"}

LootLines ==
    {"Geralt loots " \o c \o " " \o x : c \in Cnt, x \in IngredientNames}
    \cup {"Geralt loots 1 Rebis, 1 Rebis", "Geralt loots 1 Rebis,1 Vitriol",
          "Geralt loots 2147483647 Rebis"}

TradeLines ==
    {"Geralt trades " \o c \o " Harpy trophy for 1 Rebis" : c \in Cnt}
    \cup {"Geralt trades 1 Harpy, 1 Wolf trophy for 1 Vitriol",
          "Geralt trades 1 Harpy, 1 Harpy trophy for 1 Rebis"}

BrewLines == {"Geralt brews Black Blood", "Geralt brews Swallow"}

LearnLines ==
    {"Geralt learns Igni sign is effective against Harpy",
     "Geralt learns Black Blood potion is effective against Harpy",
     "Geralt learns Black Blood potion consists of 1 Rebis, 2 Vitriol",
     "Geralt learns Black Blood potion consists of 1 Rebis, 1 Rebis"}

EncounterLines == {"Geralt encounters a Harpy", "Geralt encounters a Wolf"}

AskLines ==
    {"Total ingredient ?", "Total ingredient Rebis ?", "Total potion ?",
     "Total potion Black Blood ?", "Total trophy ?", "Total trophy Harpy ?",
     "What is effective against Harpy ?", "What is in Black Blood ?"}

\* lines the classifier rejects, a line on which std::stoi throws, a line
\* read past the end of the token buffer, and a line that calls exit
OtherLines ==
    {"", "Geralt loots 1 Rebis, 0 Vitriol",
     "Geralt trades 1 Harpy trophy, 1 Wolf trophy for 1 Rebis",
     "Geralt brews Black Blood ?", "Geralt loots 2147483648 Rebis",
     "Geralt trades 1 Harpy", " Exit"}

Lines == LootLines \cup TradeLines \cup BrewLines \cup LearnLines
         \cup EncounterLines \cup AskLines \cup OtherLines

\* a second vocabulary: two potions brewed from Rebis, a sign and three
\* potions (one named like the sign) taught against one monster
PotionLines ==
    {"Geralt loots 2 Rebis",
     "Geralt learns Black Blood potion consists of 1 Rebis",
     "Geralt learns Swallow potion consists of 1 Rebis",
     "Geralt brews Black Blood", "Geralt brews Swallow",
     "Geralt learns Igni sign is effective against Harpy",
     "Geralt learns Igni potion is effective against Harpy",
     "Geralt learns Black Blood potion is effective against Harpy",
     "Geralt learns Swallow potion is effective against Harpy",
     "Geralt encounters a Harpy",
     "Total potion ?", "What is effective against Harpy ?"}

\* a third vocabulary: lines with the token Exit, alone and among others
ExitLines ==
    {" Exit", "Exit now", "Exit ?", "Geralt Exit", "exit",
     "Geralt loots 1 Rebis", "Geralt loots 1 Vitriol", "Total ingredient ?"}

\* a fourth vocabulary, for the validators of the classifier
\* brew lines: blanks and tabs, alone and doubled, before and inside a
\* two-word name; a name word that also starts the line; a word with a digit
NameSeparators == {" ", "  ", "\t\t"}
NameLines ==
    {"Geralt" \o s1 \o "brews" \o s2 \o x \o s3 \o y :
        s1 \in NameSeparators, s2 \in NameSeparators, s3 \in NameSeparators,
        x \in {"Black", "Geralt"}, y \in {"Blood", "B2"}}

\* the token sequences of length 1..n over the set of tokens T
SeqsUpTo(T, n) == UNION {[1..k -> T] : k \in 1..n}
Spaced(t) == JoinWords(t, 0, Len(t) - 1)

\* loot lines: every sequence of up to three tokens after "loots", and
\* two-group lines with good and bad counts, names and commas
LootGrammarLines ==
    {"Geralt loots " \o Spaced(t) : t \in SeqsUpTo({"1", "0", "Rebis", ","}, 3)}
    \cup {"Geralt loots " \o g1 \o sep \o g2 :
             g1 \in {"1 Rebis", "01 Rebis"}, sep \in {", ", " ", " , , "},
             g2 \in {"1 Vitriol", "0 Vitriol", "x Vitriol", "1 V2", "1", "1 Vitriol,"}}
    \cup {"Geralt loots 5, Rebis", "Geralt loots 2147483648 Rebis",
          "Geralt loots 99999999999 Rebis", "Geralt loots 1 Rebis, 1 Vitriol, 1 Rebis"}

\* trade lines: one or two trophy groups with and without the word trophy,
\* one or two ingredient groups, with and without the commas
TradeParts(G, seps) == G \cup {g1 \o sep \o g2 : g1 \in G, sep \in seps, g2 \in G}
TradeGrammarLines ==
    {"Geralt trades " \o t \o " for " \o i :
        t \in TradeParts({"1 Harpy trophy", "1 Harpy"}, {", ", " "}),
        i \in TradeParts({"1 Rebis", "0 Rebis"}, {", ", " "})}
    \cup {"Geralt trades 2 Harpy trophy, 1 Wolf trophy for 3 Rebis",
          "Geralt trades 1 Harpy trophy for 2147483648 Rebis"}

\* potion knowledge lines: each of the four tokens after "potion" right or
\* wrong, followed by nothing or by one more token
KnowledgeGrammarLines ==
    {"Geralt learns Swallow potion " \o a \o " " \o b \o " " \o c \o " " \o d \o e :
        a \in {"is", "was"}, b \in {"effective", "good"}, c \in {"against", "for"},
        d \in {"Harpy", "H2"}, e \in {"", " Harpy", " H2", " Wolf", " Wolf Harpy"}}

GrammarLines ==
    NameLines \cup LootGrammarLines \cup TradeGrammarLines \cup KnowledgeGrammarLines

\* a fifth vocabulary: recipes listed in several orders, one of them brewed
\* from a loot of five and three, and the questions about them
RecipeLines ==
    {"Geralt loots 5 Rebis, 3 Vitriol",
     "Geralt learns Swallow potion consists of 3 Vitriol, 2 Rebis",
     "Geralt learns Black Blood potion consists of 2 Rebis, 3 Vitriol",
     "Geralt learns Cat potion consists of 1 Vitriol, 2 Quebrith, 1 Rebis",
     "Geralt brews Swallow",
     "Total ingredient ?",
     "What is in Swallow ?", "What is in Black Blood ?", "What is in Cat ?"}

\* a sixth vocabulary: lines that end before the tokens their form asks
\* for, a longer line that leaves its tokens in the buffer, lines with no
\* token where a potion name belongs, and the questions that show the result
CarryLines ==
    {"Geralt learns Black Blood Cat potion is effective against Harpy",
     "Geralt learns Black Blood potion is effective against",
     "Geralt trades 5", "Geralt trades 1 Harpy trophy",
     "Geralt learns a b c d e potion",
     "Geralt learns potion consists of 3 Rebis, 2 Vitriol",
     "Geralt learns potion is effective against Harpy Harpy",
     "Geralt learns Swallow potion consists of 1 Rebis",
     "What is in ?", "What is in Swallow ?",
     "What is effective against against ?", "What is effective against Harpy ?"}

\* a seventh vocabulary: a first token, a second token and the rest of a
\* sentence, each right or wrong
SentenceFormLines ==
    {first \o " " \o verb \o rest :
        first \in {"Geralt", "geralt", "Ciri"},
        verb \in {"loots", "trades", "brews", "learns", "encounters", "steals"},
        rest \in {"", " 1 Rebis", ", 1 Rebis", " 1 Rebis,", " Swallow", " a Harpy",
                  " the Harpy", " 1 Harpy trophy for 1 Rebis",
                  " Igni sign is effective against Harpy"}}

AllLines == Lines \cup PotionLines \cup ExitLines \cup GrammarLines \cup RecipeLines
            \cup CarryLines \cup SentenceFormLines

\* the text std::getline has read when it hit the end of the input
LastLines == {"", "Total ingredient ?"}

(* Tokens and classification of each line, computed once.  Fresh[l] is the *)
(* classification when every slot past the tokens holds no token; when it  *)
(* reads no such slot (oob = FALSE) it is the classification whatever the  *)
(* slots hold.                                                             *)

Tok == [l \in AllLines |-> split_line(l)]
TypeOf == [l \in AllLines |-> detect_type(Tok[l], Len(Tok[l]))]
Fresh == [l \in AllLines |-> detect_sentence_type(l, Tok[l], Len(Tok[l]))]
QTypeOf == [l \in AllLines |-> IF TypeOf[l] = 1
                            THEN detect_question_type(l, Tok[l], Len(Tok[l])) ELSE -1]

N(l) == Len(Tok[l])

\* the lines a session that reads line l may have read before it
StaleFrom(l) ==
    IF l \in CarryLines THEN CarryLines
    ELSE IF l \in SentenceFormLines THEN SentenceFormLines
    ELSE Lines

\* what the slots past the tokens of line l may hold: the tokens a longer
\* line left there, or nothing
Pads == [l \in AllLines |->
            IF TypeOf[l] = 0 /\ Fresh[l].oob
            THEN {SubSeq(Tok[m], N(l) + 1, N(m)) : m \in {x \in StaleFrom(l) : N(x) > N(l)}}
                 \cup {<<>>}
            ELSE {<<>>}]

\* the outcome of detect_sentence_type for line l with stale slots pad
Cls == [l \in AllLines |-> [pad \in Pads[l] |->
            IF pad = <<>> THEN Fresh[l]
            ELSE detect_sentence_type(l, Tok[l] \o pad, N(l))]]

\* the lines execute_line treats as a sentence of kind k for some pad, and
\* as a question of kind k
SentenceLines == [k \in -2..6 |->
    {l \in AllLines : TypeOf[l] = 0 /\ \E pad \in Pads[l] : Cls[l][pad].r = k}]
QuestionLines == [k \in -1..7 |-> {l \in AllLines : TypeOf[l] = 1 /\ QTypeOf[l] = k}]

(* main and execute_line.                                                  *)

Init ==
    /\ ingredients = EmptyMap
    /\ trophies = EmptyMap
    /\ potion_counts = EmptyMap
    /\ potions = EmptyMap
    /\ monsters = EmptyMap
    /\ words = <<>>
    /\ word_count = 0
    /\ line = ""
    /\ out = ""
    /\ status = "running"

\* exploration stops at states whose ingredient counts left 1..MaxIng
\* (1..MaxStock for the lines of the recipe vocabulary)
IngBound(l) == IF l \in RecipeLines THEN MaxStock ELSE MaxIng
InBounds(l) == \A k \in DOMAIN ingredients : ingredients[k] \in 1..IngBound(l)
IngExplored(l, ing) == \A k \in DOMAIN ing : ing[k] <= IngBound(l) \/ ing[k] = INT_MAX

\* main read l, it is not the Exit line, execute_line(l) tokenizes it
Reads(l) ==
    /\ status = "running"
    /\ InBounds(l)
    /\ l # "Exit"
    /\ words' = Tok[l]
    /\ word_count' = N(l)
    /\ line' = l

\* the slots past the tokens of line l hold pad: nothing usable, or the
\* tokens the line read just before it left there (words still holds them)
Held(l, pad) ==
    \/ pad = <<>>
    \/ Len(words) > N(l) /\ pad = SubSeq(words, N(l) + 1, Len(words))

\* dispatch that lets a rejected line starting "Geralt loots" reach handle_loot
Sentence_unchecked(l, pad, k) ==
    /\ status = "running" /\ TypeOf[l] = 0 /\ Held(l, pad)
    /\ \/ Cls[l][pad].r = k
       \/ Cls[l][pad].r = -1 /\ k = 0 /\ W(Tok[l], 1) = "loots"
    /\ Reads(l)

Sentence(l, pad, k) ==
    status = "running" /\ TypeOf[l] = 0 /\ Held(l, pad) /\ Cls[l][pad].r = k /\ Reads(l)
Question(l, k) ==
    status = "running" /\ TypeOf[l] = 1 /\ QTypeOf[l] = k /\ Reads(l)

Answer(text) == out' = text /\ status' = "running"
Terminate == out' = "" /\ status' = "crashed" /\ UNCHANGED world

\* main: "if (std::cin.eof() || line == "Exit") break"
Break ==
    /\ status = "running"
    /\ line' = "Exit" /\ out' = "" /\ status' = "exited"
    /\ UNCHANGED <<world, words, word_count>>

EndOfInput ==
    \E l \in LastLines :
        /\ status = "running"
        /\ line' = l /\ out' = "" /\ status' = "exited"
        /\ UNCHANGED <<world, words, word_count>>

\* execute_line: "if (type == 2) exit(0)"
ExitCall(L) ==
    \E l \in L :
        /\ TypeOf[l] = 2 /\ Reads(l)
        /\ out' = "" /\ status' = "exited"
        /\ UNCHANGED world

\* the three places of execute_line that print INVALID
Invalid(L) ==
    \E l \in L :
        /\ \/ TypeOf[l] = -1
           \/ l \in QuestionLines[-1]
           \/ l \in SentenceLines[-1]
        /\ Reads(l)
        /\ Answer("INVALID")
        /\ UNCHANGED world

\* abnormal termination inside the classifier: std::stoi threw, or a read
\* past the end of the token buffer ended the program
Abort(L) ==
    \E l \in L :
        /\ TypeOf[l] = 0
        /\ \E pad \in Pads[l] : Cls[l][pad].r = THROWN \/ Cls[l][pad].oob
        /\ Reads(l)
        /\ Terminate

Loot(L) ==
    \E l \in L : \E pad \in Pads[l] :
        /\ Sentence(l, pad, 0)
        /\ LET a == handle_loot(Tok[l] \o pad, N(l), ingredients) IN
           /\ IngExplored(l, a.ing)
           /\ \/ /\ ingredients' = a.ing
                 /\ Answer("Alchemy ingredients obtained")
                 /\ UNCHANGED <<trophies, potion_counts, potions, monsters>>
              \/ a.ovf /\ Terminate

Trade(L) ==
    \E l \in L : \E pad \in Pads[l] :
        /\ Sentence(l, pad, 1)
        /\ LET t == handle_trade(Tok[l] \o pad, N(l), trophies, ingredients) IN
           /\ IngExplored(l, t.ing)
           /\ \/ /\ trophies' = t.troph
                 /\ ingredients' = t.ing
                 /\ Answer(t.out)
                 /\ UNCHANGED <<potion_counts, potions, monsters>>
              \/ t.ovf /\ Terminate

Brew(L) ==
    \E l \in L : \E pad \in Pads[l] :
        /\ Sentence(l, pad, 2)
        /\ LET b == handle_brew(potions, ingredients, potion_counts,
                                JoinWords(Tok[l] \o pad, 2, N(l) - 1)) IN
           /\ \A k \in DOMAIN b.counts : b.counts[k] <= MaxPotion
           /\ potions' = b.pots
           /\ ingredients' = b.ing
           /\ potion_counts' = b.counts
           /\ Answer(b.out)
        /\ UNCHANGED <<trophies, monsters>>

SignKnowledge(L) ==
    \E l \in L : \E pad \in Pads[l] :
        /\ Sentence(l, pad, 3)
        /\ LET k == handle_sign_knowledge(monsters, Tok[l] \o pad) IN
           monsters' = k.mons /\ Answer(k.out)
        /\ UNCHANGED <<ingredients, trophies, potion_counts, potions>>

PotionKnowledge(L) ==
    \E l \in L : \E pad \in Pads[l] :
        /\ Sentence(l, pad, 4)
        /\ LET k == handle_potion_knowledge(monsters, Tok[l] \o pad) IN
           monsters' = k.mons /\ Answer(k.out)
        /\ UNCHANGED <<ingredients, trophies, potion_counts, potions>>

PotionRecipe(L) ==
    \E l \in L : \E pad \in Pads[l] :
        /\ Sentence(l, pad, 5)
        /\ LET r == handle_potion_recipe(potions, Tok[l] \o pad, N(l)) IN
           potions' = r.pots /\ Answer(r.out)
        /\ UNCHANGED <<ingredients, trophies, potion_counts, monsters>>

Encounter(L) ==
    \E l \in L : \E pad \in Pads[l] :
        /\ Sentence(l, pad, 6)
        /\ LET e == handle_encounter(monsters, potion_counts, trophies,
                                     W(Tok[l] \o pad, 3)) IN
           /\ \A k \in DOMAIN e.troph : e.troph[k] <= MaxTrophy
           /\ potion_counts' = e.counts
           /\ trophies' = e.troph
           /\ Answer(e.out)
        /\ UNCHANGED <<ingredients, potions, monsters>>

\* the question cases of execute_line
SpecificIngredient(L) ==
    \E l \in L :
        /\ Question(l, 0)
        /\ Answer(ToString(get_count(ingredients, W(Tok[l], 2))))
        /\ UNCHANGED world

TotalIngredient(L) ==
    \E l \in L :
        Question(l, 1) /\ Answer(print_map(ingredients)) /\ UNCHANGED world

SpecificPotion(L) ==
    \E l \in L :
        /\ Question(l, 2)
        /\ Answer(ToString(get_count(potion_counts, JoinWords(Tok[l], 2, N(l) - 2))))
        /\ UNCHANGED world

TotalPotion(L) ==
    \E l \in L :
        Question(l, 3) /\ Answer(print_map(potion_counts)) /\ UNCHANGED world

SpecificTrophy(L) ==
    \E l \in L :
        /\ Question(l, 4)
        /\ Answer(ToString(get_count(trophies, W(Tok[l], 2))))
        /\ UNCHANGED world

TotalTrophy(L) ==
    \E l \in L :
        Question(l, 5) /\ Answer(print_map(trophies)) /\ UNCHANGED world

MonsterKnowledge(L) ==
    \E l \in L :
        /\ Question(l, 6)
        /\ Answer(print_monster_knowledge(monsters, W(Tok[l], 4)))
        /\ UNCHANGED world

PotionFormula(L) ==
    \E l \in L :
        /\ Question(l, 7)
        /\ LET potion_name == JoinWords(Tok[l], 3, N(l) - 2) IN
           /\ Answer(print_potion_formula(potions, potion_name))
           /\ potions' = formula_read(potions, potion_name)
        /\ UNCHANGED <<ingredients, trophies, potion_counts, monsters>>

Next ==
    \/ Break \/ EndOfInput \/ ExitCall(Lines) \/ Invalid(Lines) \/ Abort(Lines)
    \/ Loot(Lines) \/ Trade(Lines) \/ Brew(Lines)
    \/ SignKnowledge(Lines) \/ PotionKnowledge(Lines)
    \/ PotionRecipe(Lines) \/ Encounter(Lines)
    \/ SpecificIngredient(Lines) \/ TotalIngredient(Lines)
    \/ SpecificPotion(Lines) \/ TotalPotion(Lines)
    \/ SpecificTrophy(Lines) \/ TotalTrophy(Lines)
    \/ MonsterKnowledge(Lines) \/ PotionFormula(Lines)

Spec == Init /\ [][Next]_vars

\* the strings of up to n characters over a letter, a blank, a carriage
\* return, the comma and the question mark
TokenizerAlphabet == {"a", " ", "\r", ",", "?"}

RECURSIVE StringsUpTo(_)
StringsUpTo(n) ==
    IF n = 0 THEN {""}
    ELSE LET shorter == StringsUpTo(n - 1) IN
         shorter \cup {t \o c : t \in shorter, c \in TokenizerAlphabet}

TokenizerInputs == StringsUpTo(MaxLen)

\* the head of execute_line on any such string: split_line, word_count
SplitLine ==
    \E l \in TokenizerInputs :
        /\ status = "running"
        /\ line' = l
        /\ words' = split_line(l)
        /\ word_count' = Len(words')
        /\ UNCHANGED <<world, out, status>>

TokenizerSpec == Init /\ [][SplitLine]_vars

\* the session over the third vocabulary
ExitNext ==
    \/ Break \/ EndOfInput \/ ExitCall(ExitLines) \/ Invalid(ExitLines)
    \/ Loot(ExitLines) \/ TotalIngredient(ExitLines)

ExitSpec == Init /\ [][ExitNext]_vars

\* the session over the second vocabulary
PotionNext ==
    \/ Loot(PotionLines) \/ Brew(PotionLines)
    \/ SignKnowledge(PotionLines) \/ PotionKnowledge(PotionLines)
    \/ PotionRecipe(PotionLines) \/ Encounter(PotionLines)
    \/ TotalPotion(PotionLines) \/ MonsterKnowledge(PotionLines)

PotionSpec == Init /\ [][PotionNext]_vars

\* the session over the fourth vocabulary
GrammarNext ==
    \/ Invalid(GrammarLines) \/ Abort(GrammarLines)
    \/ Loot(GrammarLines) \/ Trade(GrammarLines)
    \/ Brew(GrammarLines) \/ PotionKnowledge(GrammarLines)

GrammarSpec == Init /\ [][GrammarNext]_vars

\* the session over the sixth vocabulary
CarryNext ==
    \/ Invalid(CarryLines) \/ Abort(CarryLines)
    \/ PotionKnowledge(CarryLines) \/ PotionRecipe(CarryLines)
    \/ MonsterKnowledge(CarryLines) \/ PotionFormula(CarryLines)

CarrySpec == Init /\ [][CarryNext]_vars

\* the session over the seventh vocabulary
SentenceFormNext ==
    \/ Invalid(SentenceFormLines) \/ Abort(SentenceFormLines)
    \/ Loot(SentenceFormLines) \/ Trade(SentenceFormLines)
    \/ Brew(SentenceFormLines) \/ SignKnowledge(SentenceFormLines)
    \/ Encounter(SentenceFormLines)

SentenceFormSpec == Init /\ [][SentenceFormNext]_vars

\* the session over the fifth vocabulary
RecipeNext ==
    \/ Loot(RecipeLines) \/ PotionRecipe(RecipeLines) \/ Brew(RecipeLines)
    \/ TotalIngredient(RecipeLines) \/ PotionFormula(RecipeLines)

RecipeSpec == Init /\ [][RecipeNext]_vars

(* Properties of the ledger operations.                                    *)

\* the indices of the trophy groups of a trade line: 2, 5, ... up to the
\* group followed by "trophy for"
RECURSIVE TrophyGroupStarts(_, _)
TrophyGroupStarts(w, i) ==
    IF W(w, i + 3) = "for" \/ i + 3 >= Len(w) THEN {i}
    ELSE {i} \cup TrophyGroupStarts(w, i + 3)

\* some trophy group of the line asks for more than the ledger holds
TradeShort(w, troph) ==
    \E i \in TrophyGroupStarts(w, 2) : get_count(troph, W(w, i + 1)) < stoi(W(w, i))

\* C1: a trade line accepted by the classifier, one of whose trophy groups
\* asks for more than the trophy ledger holds, is answered "Not enough
\* trophies" and leaves the trophy ledger and the ingredient ledger as they were.
C1_TradeAtomic ==
    [][(status' = "running" /\ line' \in SentenceLines[1]
            /\ TradeShort(Tok[line'], trophies))
       => (out' = "Not enough trophies" /\ trophies' = trophies
            /\ ingredients' = ingredients)]_vars

\* a two-group trade refused although the ledger holds the first group
C1_Witness ==
    /\ status = "running"
    /\ line = "Geralt trades 1 Harpy, 1 Wolf trophy for 1 Vitriol"
    /\ out = "Not enough trophies"
    /\ get_count(trophies, "Harpy") >= 1

\* the potion a brew line names
BrewName(l) == JoinWords(Tok[l], 2, N(l) - 1)

\* some entry of the stored formula asks for more than the ledger holds
FormulaShort(formula, ing) ==
    \E i \in 1..Len(formula) : get_count(ing, formula[i][1]) < formula[i][2]

\* C2: a brew line for a potion without a formula is answered "No formula
\* for <potion>"; one whose formula has an entry the ingredient ledger cannot
\* cover is answered "Not enough ingredients"; either way the ingredient
\* ledger and the potion stock stay as they were.
C2_BrewAtomic ==
    [][(status' = "running" /\ line' \in SentenceLines[2])
       => LET p == BrewName(line') IN
          /\ p \notin DOMAIN potions => out' = "No formula for " \o p
          /\ (p \in DOMAIN potions /\ FormulaShort(potions[p], ingredients))
                => out' = "Not enough ingredients"
          /\ out' \in {"No formula for " \o p, "Not enough ingredients"}
                => (ingredients' = ingredients /\ potion_counts' = potion_counts)]_vars

\* a brew refused for lack of Rebis while the ledger covers the Vitriol entry
C2_Witness ==
    /\ status = "running"
    /\ line = "Geralt brews Black Blood"
    /\ out = "Not enough ingredients"
    /\ get_count(ingredients, "Vitriol") >= 2
    /\ get_count(ingredients, "Rebis") = 0

\* C3: every entry of the ingredient ledger, the potion stock and the trophy
\* ledger has a count greater than zero.
C3_LedgerPositive ==
    /\ \A k \in DOMAIN ingredients : ingredients[k] > 0
    /\ \A k \in DOMAIN potion_counts : potion_counts[k] > 0
    /\ \A k \in DOMAIN trophies : trophies[k] > 0

\* the lines execute_line answers INVALID whatever the token buffer holds
Rejected(l) ==
    \/ TypeOf[l] = -1
    \/ l \in QuestionLines[-1]
    \/ TypeOf[l] = 0 /\ \A pad \in Pads[l] : Cls[l][pad].r = -1

\* C4: a line the classifier rejects is answered INVALID and leaves the
\* ledgers, the formulas and the bestiary as they were.
C4_RejectedLine ==
    [][(status' = "running" /\ line' \in AllLines /\ Rejected(line'))
       => (out' = "INVALID" /\ world' = world)]_vars

\* a loot line rejected at its second group although its first group is well formed
C4_Witness ==
    /\ status = "running"
    /\ line = "Geralt loots 1 Rebis, 0 Vitriol"
    /\ out = "INVALID"
    /\ DOMAIN ingredients # {}

\* the monster is not in the bestiary, or no sign is recorded for it and no
\* recorded potion is in stock
EndsUnprepared(mons, counts, m) ==
    \/ m \notin DOMAIN mons
    \/ /\ mons[m].signs = {}
       /\ \A p \in mons[m].potions : get_count(counts, p) = 0

\* C5: an encounter that ends unprepared is answered "Geralt is unprepared
\* and barely escapes with his life" and leaves the trophy ledger, the potion
\* stock and the bestiary as they were.
C5_UnpreparedEncounter ==
    [][(status' = "running" /\ line' \in SentenceLines[6]
            /\ EndsUnprepared(monsters, potion_counts, W(Tok[line'], 3)))
       => (out' = "Geralt is unprepared and barely escapes with his life"
            /\ trophies' = trophies /\ potion_counts' = potion_counts
            /\ monsters' = monsters)]_vars

\* unprepared against a monster whose bestiary entry records a potion only
C5_Witness ==
    /\ status = "running"
    /\ line = "Geralt encounters a Harpy"
    /\ out = "Geralt is unprepared and barely escapes with his life"
    /\ "Harpy" \in DOMAIN monsters
    /\ monsters["Harpy"].potions # {}

\* the potion a recipe line names: the tokens between "learns" and "potion"
RECURSIVE PotionToken(_, _)
PotionToken(w, i) ==
    IF i >= Len(w) \/ w[i + 1] = "potion" THEN i ELSE PotionToken(w, i + 1)

RecipeName(l) == JoinWords(Tok[l], 2, PotionToken(Tok[l], 2) - 1)

\* C6: a recipe line for a potion that has a formula is answered "Already
\* known formula" and leaves every stored formula as it was, the order of its
\* entries included.
C6_FormulaImmutable ==
    [][(status' = "running" /\ line' \in SentenceLines[5]
            /\ RecipeName(line') \in DOMAIN potions)
       => (out' = "Already known formula" /\ potions' = potions)]_vars

\* what a knowledge line teaches: the monster (last token), the field of
\* its bestiary entry, and the sign or potion
Taught(l) ==
    IF l \in SentenceLines[3]
    THEN [monster |-> W(Tok[l], N(l) - 1), field |-> "signs", name |-> W(Tok[l], 2)]
    ELSE [monster |-> W(Tok[l], N(l) - 1), field |-> "potions",
          name |-> JoinWords(Tok[l], 2, N(l) - 6)]

\* C7: no step removes a monster from the bestiary or a sign or potion from
\* an entry, and a knowledge line teaching what the bestiary already records
\* is answered "Already known effectiveness" and changes nothing.
C7_BestiaryMonotone ==
    [][/\ \A m \in DOMAIN monsters :
            /\ m \in DOMAIN monsters'
            /\ monsters[m].signs \subseteq monsters'[m].signs
            /\ monsters[m].potions \subseteq monsters'[m].potions
       /\ (status' = "running" /\ line' \in SentenceLines[3] \cup SentenceLines[4]
            /\ Taught(line').monster \in DOMAIN monsters
            /\ Taught(line').name
                   \in monsters[Taught(line').monster][Taught(line').field])
          => (out' = "Already known effectiveness" /\ world' = world)]_vars

\* a sign taught again for a monster whose entry also records a potion
C7_Witness ==
    /\ status = "running"
    /\ line = "Geralt learns Igni sign is effective against Harpy"
    /\ out = "Already known effectiveness"
    /\ "Harpy" \in DOMAIN monsters
    /\ monsters["Harpy"].signs = {"Igni"}
    /\ monsters["Harpy"].potions = {"Black Blood"}

\* the lines execute_line answers as a question
AcceptedQuestion(l) == l \in AllLines /\ TypeOf[l] = 1 /\ QTypeOf[l] \in 0..7

\* C8: a line answered as a question leaves the ledgers, the stored
\* formulas (the order of their entries included) and the bestiary as they were.
C8_QuestionReadOnly ==
    [][(status' = "running" /\ AcceptedQuestion(line')) => world' = world]_vars

\* C9: a question asked again right after it was answered gets the same answer.
C9_QueryIdempotent ==
    [][(status = "running" /\ status' = "running" /\ line' = line
            /\ AcceptedQuestion(line))
       => out' = out]_vars

\* the formula question answered for a formula learned in another order
\* than the one it is listed in
C9_Witness ==
    /\ status = "running"
    /\ line = "What is in Black Blood ?"
    /\ out = "2 Vitriol, 1 Rebis"
    /\ potions["Black Blood"] = <<<<"Vitriol", 2>>, <<"Rebis", 1>>>>

\* a loot line run on ledger s.ing: the ledger after it, and whether every
\* line so far was answered "Alchemy ingredients obtained" with no int overflow
LootOf(l, s) ==
    LET w == split_line(l)
        n == Len(w)
    IN  IF detect_type(w, n) = 0 /\ detect_sentence_type(l, w, n).r = 0
        THEN LET a == handle_loot(w, n, s.ing) IN
             [ing |-> a.ing, said |-> s.said /\ ~a.ovf]
        ELSE [ing |-> s.ing, said |-> FALSE]

\* counts a, b and their sum, as the line spells them
LootSums ==
    {<<ToString(a), ToString(b), ToString(a + b)>> : a, b \in 1..MaxCnt}
    \cup {<<"2147483647", "1", "2147483648">>}

\* C10: looting a of X and then b of X, in two lines or in two groups of one
\* line, gives the ledger that looting a+b of X in one line gives, and each
\* loot line is answered "Alchemy ingredients obtained".
C10_LootAdditive ==
    \A t \in LootSums, x \in IngredientNames :
        LET s0 == [ing |-> ingredients, said |-> TRUE]
            Group(c) == c \o " " \o x
            lines == LootOf("Geralt loots " \o Group(t[2]),
                            LootOf("Geralt loots " \o Group(t[1]), s0))
            groups == LootOf("Geralt loots " \o Group(t[1]) \o ", " \o Group(t[2]), s0)
            sum == LootOf("Geralt loots " \o Group(t[3]), s0)
        IN  /\ lines.said /\ groups.said /\ sum.said
            /\ lines.ing = sum.ing /\ groups.ing = sum.ing

\* index of the token "for" of a trade line
ForIndex(w) == CHOOSE i \in 0..(Len(w) - 1) : w[i + 1] = "for"

\* the sum of the counts of the groups (count, name, separator) at indices
\* i, i + 3, ... below end that name name
RECURSIVE GroupTotal(_, _, _, _)
GroupTotal(w, i, end, name) ==
    IF i >= end THEN 0
    ELSE (IF W(w, i + 1) = name THEN stoi(W(w, i)) ELSE 0)
         + GroupTotal(w, i + 3, end, name)

TokensOf(w) == {w[i] : i \in 1..Len(w)}

\* C11: a trade answered "Trade successful" lowers every trophy by the sum
\* of the counts of the groups naming it (the ledger held at least that
\* sum; an entry reaching zero is removed) and raises every ingredient by
\* the sum of the counts of the groups naming it.
C11_TradeTotals ==
    [][(status' = "running" /\ line' \in SentenceLines[1]
            /\ out' = "Trade successful")
       => LET w == Tok[line'] IN
          /\ \A t \in TokensOf(w) \cup DOMAIN trophies \cup DOMAIN trophies' :
                LET asked == GroupTotal(w, 2, ForIndex(w), t) IN
                /\ asked <= get_count(trophies, t)
                /\ get_count(trophies', t) = get_count(trophies, t) - asked
                /\ t \in DOMAIN trophies' => trophies'[t] > 0
          /\ \A x \in TokensOf(w) \cup DOMAIN ingredients \cup DOMAIN ingredients' :
                get_count(ingredients', x)
                    = get_count(ingredients, x)
                      + GroupTotal(w, ForIndex(w) + 1, Len(w), x)]_vars

\* the sum of the quantities of the entries of a formula that name x
RECURSIVE FormulaTotal(_, _)
FormulaTotal(formula, x) ==
    IF formula = <<>> THEN 0
    ELSE (IF Head(formula)[1] = x THEN Head(formula)[2] ELSE 0)
         + FormulaTotal(Tail(formula), x)

\* C12: a brew answered "Alchemy item created: <potion>" lowers every
\* ingredient by the sum of the quantities of the formula entries naming it,
\* which the ledger held (an entry reaching zero is removed), raises the
\* stock of the potion by one and leaves every other count as it was.
C12_BrewTotals ==
    [][(status' = "running" /\ line' \in SentenceLines[2]
            /\ out' = "Alchemy item created: " \o BrewName(line'))
       => LET p == BrewName(line') IN
          /\ \A x \in DOMAIN ingredients \cup DOMAIN ingredients' :
                LET needed == FormulaTotal(potions[p], x) IN
                /\ needed <= get_count(ingredients, x)
                /\ get_count(ingredients', x) = get_count(ingredients, x) - needed
                /\ x \in DOMAIN ingredients' => ingredients'[x] > 0
          /\ get_count(potion_counts', p) = get_count(potion_counts, p) + 1
          /\ \A q \in (DOMAIN potion_counts \cup DOMAIN potion_counts') \ {p} :
                get_count(potion_counts', q) = get_count(potion_counts, q)
          /\ trophies' = trophies]_vars

(* Properties of the encounters and the bestiary, over the second vocabulary. *)

Keys(before, after) == DOMAIN before \cup DOMAIN after

\* the counts of map after differ from those of map before exactly by the
\* function delta on Keys(before, after) (a count of 0 stands for no
\* entry), and no entry of after holds 0
ChangedBy(before, after, delta) ==
    /\ \A k \in Keys(before, after) :
            get_count(after, k) = get_count(before, k) + delta[k]
    /\ \A k \in DOMAIN after : after[k] > 0

\* what a won encounter with monster m does: one unit less of every
\* recorded potion that is in stock, one trophy of m more
WonEncounter(m) ==
    /\ out' = "Geralt defeats " \o m
    /\ ChangedBy(potion_counts, potion_counts',
                 [p \in Keys(potion_counts, potion_counts') |->
                    IF p \in monsters[m].potions /\ get_count(potion_counts, p) > 0
                    THEN -1 ELSE 0])
    /\ ChangedBy(trophies, trophies',
                 [t \in Keys(trophies, trophies') |-> IF t = m THEN 1 ELSE 0])
    /\ monsters' = monsters /\ ingredients' = ingredients /\ potions' = potions

\* C13: an encounter with a monster for which a sign is recorded is answered
\* "Geralt defeats <monster>" whatever the potion stock, takes one unit of
\* each recorded potion that is in stock (an entry reaching zero is removed)
\* and adds one trophy of the monster.
C13_SignEncounter ==
    [][\A l \in SentenceLines[6] :
          (status' = "running" /\ line' = l
              /\ W(Tok[l], 3) \in DOMAIN monsters
              /\ monsters[W(Tok[l], 3)].signs # {})
          => WonEncounter(W(Tok[l], 3))]_vars

\* a second win by sign against a monster with two recorded potions
C13_Witness ==
    /\ status = "running"
    /\ line = "Geralt encounters a Harpy"
    /\ out = "Geralt defeats Harpy"
    /\ "Harpy" \in DOMAIN monsters
    /\ monsters["Harpy"].signs = {"Igni"}
    /\ {"Black Blood", "Swallow"} \subseteq monsters["Harpy"].potions
    /\ get_count(trophies, "Harpy") = 2

\* C14: an encounter with a monster for which no sign but some potion is
\* recorded is won ("Geralt defeats <monster>", one trophy more) exactly when
\* one of the recorded potions is in stock; it then takes one unit of every
\* recorded potion that is in stock.
C14_PotionEncounter ==
    [][\A l \in SentenceLines[6] :
          (status' = "running" /\ line' = l
              /\ W(Tok[l], 3) \in DOMAIN monsters
              /\ monsters[W(Tok[l], 3)].signs = {}
              /\ monsters[W(Tok[l], 3)].potions # {})
          => LET m == W(Tok[l], 3) IN
             IF \E p \in monsters[m].potions : get_count(potion_counts, p) > 0
             THEN WonEncounter(m)
             ELSE /\ out' # "Geralt defeats " \o m
                  /\ trophies' = trophies]_vars

\* a win by potions alone that left no stock of the two recorded potions
C14_Witness ==
    /\ status = "running"
    /\ line = "Geralt encounters a Harpy"
    /\ out = "Geralt defeats Harpy"
    /\ monsters["Harpy"].signs = {}
    /\ {"Black Blood", "Swallow"} \subseteq monsters["Harpy"].potions
    /\ potion_counts = EmptyMap
    /\ potions # EmptyMap

\* C15: a knowledge line is answered "New bestiary entry added: <monster>"
\* exactly when the monster has no entry (the entry made holds this sign or
\* potion alone), "Bestiary entry updated: <monster>" exactly when the entry
\* lacks it in the set of its kind (to which it is added), and "Already known
\* effectiveness" exactly when that set holds it; signs and potions are
\* separate sets.
C15_KnowledgeAnswer ==
    [][\A l \in SentenceLines[3] \cup SentenceLines[4] :
          (status' = "running" /\ line' = l)
          => LET t == Taught(l)
                 m == t.monster
                 other == IF t.field = "signs" THEN "potions" ELSE "signs"
             IN  IF m \notin DOMAIN monsters
                 THEN /\ out' = "New bestiary entry added: " \o m
                      /\ DOMAIN monsters' = DOMAIN monsters \cup {m}
                      /\ monsters'[m][t.field] = {t.name}
                      /\ monsters'[m][other] = {}
                      /\ \A k \in DOMAIN monsters : monsters'[k] = monsters[k]
                 ELSE IF t.name \notin monsters[m][t.field]
                 THEN /\ out' = "Bestiary entry updated: " \o m
                      /\ DOMAIN monsters' = DOMAIN monsters
                      /\ monsters'[m][t.field] = monsters[m][t.field] \cup {t.name}
                      /\ monsters'[m][other] = monsters[m][other]
                      /\ \A k \in DOMAIN monsters \ {m} : monsters'[k] = monsters[k]
                 ELSE /\ out' = "Already known effectiveness"
                      /\ monsters' = monsters]_vars

\* a potion taught for a monster whose entry holds a sign of the same name
C15_Witness ==
    /\ status = "running"
    /\ line = "Geralt learns Igni potion is effective against Harpy"
    /\ out = "Bestiary entry updated: Harpy"
    /\ monsters["Harpy"].signs = {"Igni"}
    /\ "Igni" \in monsters["Harpy"].potions

(* Properties of the formulas.                                             *)

\* the (ingredient, quantity) groups of a line from index i on, in line order
RECURSIVE LineGroups(_, _)
LineGroups(w, i) ==
    IF i >= Len(w) THEN <<>>
    ELSE <<<<W(w, i + 1), stoi(W(w, i))>>>> \o LineGroups(w, i + 3)

\* the sequences holding the entries of formula f in some order
Orders(f) ==
    {[i \in 1..Len(f) |-> f[pi[i]]] :
        pi \in {q \in [1..Len(f) -> 1..Len(f)] :
                   \A i, j \in 1..Len(f) : q[i] = q[j] => i = j}}

\* a recipe line for a potion without a formula stores its groups
RecipeStored ==
    \A l \in SentenceLines[5] :
        (status' = "running" /\ line' = l /\ RecipeName(l) \notin DOMAIN potions)
        => /\ out' = "New alchemy formula obtained: " \o RecipeName(l)
           /\ potions' = Put(potions, RecipeName(l),
                             LineGroups(Tok[l], PotionToken(Tok[l], 2) + 3))

\* a brew of a potion with a formula succeeds exactly when the ledger holds
\* the quantities of the formula, and then takes exactly them
BrewByFormula ==
    \A l \in SentenceLines[2] :
        (status' = "running" /\ line' = l /\ BrewName(l) \in DOMAIN potions)
        => LET f == potions[BrewName(l)]
               names == {f[i][1] : i \in 1..Len(f)}
           IN  IF \A x \in names : FormulaTotal(f, x) <= get_count(ingredients, x)
               THEN /\ out' = "Alchemy item created: " \o BrewName(l)
                    /\ ChangedBy(ingredients, ingredients',
                                 [x \in Keys(ingredients, ingredients') |->
                                    0 - FormulaTotal(f, x)])
               ELSE /\ out' = "Not enough ingredients"
                    /\ ingredients' = ingredients

\* the formula question lists the entries of the stored formula
FormulaReported ==
    \A l \in QuestionLines[7] :
        (status' = "running" /\ line' = l
            /\ JoinWords(Tok[l], 3, N(l) - 2) \in DOMAIN potions)
        => LET f == potions[JoinWords(Tok[l], 3, N(l) - 2)] IN
           \E o \in Orders(f) :
               out' = JoinComma([i \in 1..Len(o) |-> Entry(o[i][2], o[i][1])])

\* C16: the first recipe line for a potion is answered "New alchemy formula
\* obtained: <potion>" and stores the groups of the line as its formula; from
\* then on a brew of the potion requires and takes the quantities of that
\* formula and the formula question reports its pairs.
C16_FirstRecipe == [][RecipeStored /\ BrewByFormula /\ FormulaReported]_vars

(* Properties of the dispatch and of the session.                          *)

\* the last token of line l is "?"
EndsInQuestionMark(l) == N(l) > 0 /\ Tok[l][N(l)] = "?"

\* C17: a line whose last token is "?" is answered as a question or with
\* INVALID and leaves the ledgers, the formulas and the bestiary as they
\* were; no line is accepted both as a question and as a sentence.
C17_QuestionMark ==
    [][/\ \A l \in AllLines :
            (status' = "running" /\ line' = l /\ EndsInQuestionMark(l))
            => /\ AcceptedQuestion(l) \/ out' = "INVALID"
               /\ world' = world
       /\ \A l \in AllLines, k \in 0..6 :
            ~(AcceptedQuestion(l) /\ l \in SentenceLines[k])]_vars

\* C18: every line read, terminated by a newline or not, has got its one
\* response when the next line is read or the session ends, unless its
\* tokens are exactly "Exit" (line = "" stands for no line read).
C18_OneResponse ==
    (line # "" /\ split_line(line) # <<"Exit">>) => out # ""

\* C19: a line whose tokens are exactly "Exit" ends the session without a
\* response and nothing happens after the session has ended; a line holding
\* Exit among other tokens, or exit in lower case, is answered and the
\* session goes on.
C19_ExitTerminal ==
    [][/\ status = "running"
       /\ split_line(line') = <<"Exit">>
            => (status' = "exited" /\ out' = "" /\ world' = world)
       /\ \A l \in AllLines :
            (line' = l /\ Tok[l] # <<"Exit">>
                /\ TokensOf(Tok[l]) \cap {"Exit", "exit"} # {})
            => (status' = "running" /\ out' = "INVALID")]_vars

\* the session ended by a line holding the token Exit after a blank
C19_Witness ==
    /\ status = "exited"
    /\ line = " Exit"
    /\ out = ""
    /\ DOMAIN ingredients # {}

(* Properties of the tokenizer.                                            *)

Whitespace == {" ", "\t", "\n", "\r", "\f"}

\* position i of l holds a character that is no whitespace, comma or "?"
InRun(l, i) ==
    i \in 1..Len(l) /\ CharAt(l, i) \notin Whitespace \cup {",", "?"}

\* the positions at which a token starts: a comma, a question mark, or the
\* first character of a maximal run
TokenStarts(l) ==
    {i \in 1..Len(l) : \/ CharAt(l, i) \in {",", "?"}
                       \/ InRun(l, i) /\ ~InRun(l, i - 1)}

TokenAt(l, i) ==
    IF CharAt(l, i) \in {",", "?"} THEN CharAt(l, i)
    ELSE SubSeq(l, i, CHOOSE j \in i..Len(l) :
                         (\A k \in i..j : InRun(l, k)) /\ ~InRun(l, j + 1))

\* the tokens the runs and the separators of l make, from left to right
ExpectedTokens(l) ==
    LET starts == TokenStarts(l)
        Nth(k) == CHOOSE i \in starts : Cardinality({j \in starts : j < i}) = k - 1
    IN  [k \in 1..Cardinality(starts) |-> TokenAt(l, Nth(k))]

\* C20: the tokens of a line are, from left to right, its maximal runs of
\* characters other than whitespace, "," and "?" and one token for each ","
\* and each "?"; no token is empty or holds whitespace; a line of whitespace
\* alone has no token.
C20_Tokenizer ==
    /\ words = ExpectedTokens(line)
    /\ word_count = Len(words)
    /\ \A i \in 1..Len(words) :
            words[i] # "" /\ CharsOf(words[i]) \cap Whitespace = {}
    /\ CharsOf(line) \subseteq Whitespace => words = <<>>

\* commas and a question mark that touch a run are tokens of their own
C20_Witness ==
    /\ line = "a,?"
    /\ words = <<"a", ",", "?">>
    /\ word_count = 3

(* Properties of the validators, over the fourth vocabulary.               *)

\* the position in line l of the first character of its token number k
\* (k = 0 for the first token)
TokenPosition(l, k) ==
    CHOOSE i \in TokenStarts(l) : Cardinality({j \in TokenStarts(l) : j < i}) = k

\* the tokens first..last of line l are letters only, and from the first
\* character of token first to the last character of token last no two
\* adjacent characters of l are both whitespace
NameWellFormed(l, first, last) ==
    LET from == TokenPosition(l, first)
        to == TokenPosition(l, last) + Len(Tok[l][last + 1]) - 1
    IN  /\ \A k \in first..last : CharsOf(Tok[l][k + 1]) \subseteq isalpha
        /\ \A i \in from..(to - 1) :
              ~(CharAt(l, i) \in Whitespace /\ CharAt(l, i + 1) \in Whitespace)

\* C21: a brew line is accepted (answered otherwise than INVALID) exactly
\* when every token of its potion name is letters only and the part of the
\* line from the first character of the first name token to the last
\* character of the last one holds no two adjacent whitespace characters,
\* blanks or tabs, wherever else the words of the name occur in the line.
C21_PotionName ==
    [][(status' = "running" /\ line' \in NameLines)
       => ((out' # "INVALID") <=> NameWellFormed(line', 2, N(line') - 1))]_vars

\* a count token: digits only, of a value greater than 0
PositiveInteger(t) ==
    t # "" /\ CharsOf(t) \subseteq isdigit /\ CharsOf(t) # {"0"}

\* a name token: letters only
Alphabetic(t) == t # "" /\ CharsOf(t) \subseteq isalpha

\* from token i to the last token of w: one or more groups <count> <name>
\* with a comma between two groups and none after the last
RECURSIVE IngredientGroups(_, _)
IngredientGroups(w, i) ==
    /\ PositiveInteger(W(w, i)) /\ Alphabetic(W(w, i + 1))
    /\ \/ i + 2 = Len(w)
       \/ W(w, i + 2) = "," /\ IngredientGroups(w, i + 3)

\* from token i on: one or more groups <count> <name> "trophy" with a comma
\* between two groups and "for" after the last; the index of the token after
\* "for", or -1
RECURSIVE TrophyGroups(_, _)
TrophyGroups(w, i) ==
    IF ~(PositiveInteger(W(w, i)) /\ Alphabetic(W(w, i + 1)) /\ W(w, i + 2) = "trophy")
    THEN -1
    ELSE IF W(w, i + 3) = "for" THEN i + 4
    ELSE IF W(w, i + 3) = "," THEN TrophyGroups(w, i + 4)
    ELSE -1

TradeGrammar(w) ==
    TrophyGroups(w, 2) # -1 /\ IngredientGroups(w, TrophyGroups(w, 2))

\* C22: a line starting "Geralt trades" is answered as a trade ("Trade
\* successful" or "Not enough trophies") when the tokens after "trades" are
\* one or more groups <positive integer> <name> "trophy" separated by commas,
\* then "for", then one or more groups <positive integer> <name> separated
\* by commas, and is answered INVALID otherwise.
C22_TradeGrammar ==
    [][line' \in TradeGrammarLines
       => IF TradeGrammar(Tok[line'])
          THEN status' = "running" /\ out' \in {"Trade successful", "Not enough trophies"}
          ELSE status' = "running" /\ out' = "INVALID"]_vars

\* C23: a line starting "Geralt loots" is answered "Alchemy ingredients
\* obtained" when the tokens after "loots" are one or more groups <digits-only
\* integer greater than 0> <letters-only name> with a comma between two
\* groups and none after the last, and is answered INVALID otherwise.
C23_LootGrammar ==
    [][line' \in LootGrammarLines
       => IF IngredientGroups(Tok[line'], 2)
          THEN status' = "running" /\ out' = "Alchemy ingredients obtained"
          ELSE status' = "running" /\ out' = "INVALID"]_vars

\* C24: a line "Geralt learns <potion> potion ..." is answered as potion
\* knowledge only when the tokens after the first token "potion" are exactly
\* "is", "effective", "against" and a letters-only monster name, which is
\* the last token of the line.
C24_PotionKnowledgeGrammar ==
    [][(line' \in KnowledgeGrammarLines
            /\ out' \in {"New bestiary entry added: " \o m : m \in {"Harpy", "Wolf"}}
                     \cup {"Bestiary entry updated: " \o m : m \in {"Harpy", "Wolf"}}
                     \cup {"Already known effectiveness"})
       => LET w == Tok[line']
              i == PotionToken(w, 2)
          IN  /\ Len(w) = i + 5
              /\ SubSeq(w, i + 2, i + 4) = <<"is", "effective", "against">>
              /\ Alphabetic(w[i + 5])]_vars

(* Properties of the answers to the questions.                             *)

\* the entries of o are in descending order of quantity, entries of equal
\* quantity in ascending order of name
ByQuantityThenName(o) ==
    \A i, j \in 1..Len(o) :
        i < j => \/ o[i][2] > o[j][2]
                 \/ o[i][2] = o[j][2] /\ ~StrLess(o[j][1], o[i][1])

\* C25: the formula question is answered "No formula for <potion>" when the
\* potion has no formula, and otherwise with the entries of its formula, each
\* once, as "<quantity> <name>" joined by ", ", in descending order of
\* quantity and, among equal quantities, ascending order of name.
C25_FormulaAnswer ==
    [][(status' = "running" /\ line' \in QuestionLines[7])
       => LET p == JoinWords(Tok[line'], 3, N(line') - 2) IN
          IF p \notin DOMAIN potions THEN out' = "No formula for " \o p
          ELSE \E o \in Orders(potions[p]) :
                  /\ ByQuantityThenName(o)
                  /\ out' = JoinComma([i \in 1..Len(o) |-> Entry(o[i][2], o[i][1])])]_vars

\* a formula of three entries, two of equal quantity, listed in an order
\* that is neither that of the recipe line nor that of the names
C25_Witness ==
    /\ status = "running"
    /\ line = "What is in Cat ?"
    /\ out = "2 Quebrith, 1 Rebis, 1 Vitriol"

\* the names of the sequence names, each once, those in both twice
RECURSIVE ListedTwiceWhenBoth(_, _)
ListedTwiceWhenBoth(names, both) ==
    IF names = <<>> THEN <<>>
    ELSE (IF Head(names) \in both THEN <<Head(names), Head(names)>> ELSE <<Head(names)>>)
         \o ListedTwiceWhenBoth(Tail(names), both)

\* C26: the monster question is answered "No knowledge of <monster>" when
\* the monster has no bestiary entry, and otherwise with the recorded signs
\* and the recorded potions in one list in ascending order of name, joined by
\* ", ", a name recorded as a sign and as a potion being listed twice.
C26_MonsterAnswer ==
    [][(status' = "running" /\ line' \in QuestionLines[6])
       => LET m == W(Tok[line'], 4) IN
          IF m \notin DOMAIN monsters THEN out' = "No knowledge of " \o m
          ELSE out' = JoinComma(ListedTwiceWhenBoth(
                          Ascending(monsters[m].signs \cup monsters[m].potions),
                          monsters[m].signs \cap monsters[m].potions))]_vars

\* a sign and three potions, one of them named like the sign
C26_Witness ==
    /\ status = "running"
    /\ line = "What is effective against Harpy ?"
    /\ out = "Black Blood, Igni, Igni, Swallow"

\* the keys of ledger m, each once, in ascending order
KeysAscending(m) ==
    CHOOSE o \in [1..Cardinality(DOMAIN m) -> DOMAIN m] :
        \A i, j \in 1..Cardinality(DOMAIN m) : i < j => StrLess(o[i], o[j])

\* the answer to a total question about ledger m
TotalAnswer(m) ==
    IF DOMAIN m = {} THEN "None"
    ELSE LET o == KeysAscending(m) IN
         JoinComma([i \in 1..Len(o) |-> ToString(m[o[i]]) \o " " \o o[i]])

\* the answer to a question about the count of name in ledger m
CountAnswer(m, name) == IF name \in DOMAIN m THEN ToString(m[name]) ELSE "0"

SwallowFormula == [Swallow |-> <<<<"Vitriol", 3>>, <<"Rebis", 2>>>>]

\* the ledgers, formulas and bestiary after the loot, after the recipe and
\* after the brew
AfterLoot == <<[Rebis |-> 5, Vitriol |-> 3], EmptyMap, EmptyMap, EmptyMap, EmptyMap>>
AfterRecipe == <<[Rebis |-> 5, Vitriol |-> 3], EmptyMap, EmptyMap, SwallowFormula, EmptyMap>>
AfterBrew == <<[Rebis |-> 3], EmptyMap, [Swallow |-> 1], SwallowFormula, EmptyMap>>

\* line l read in state before is answered with answer and leads to after
ScenarioStep(before, l, answer, after) ==
    (world = before /\ line' = l)
    => (status' = "running" /\ out' = answer /\ world' = after)

\* the four lines of the scenario, the last one answered with total
Scenario(total) ==
    /\ ScenarioStep(<<EmptyMap, EmptyMap, EmptyMap, EmptyMap, EmptyMap>>,
                    "Geralt loots 5 Rebis, 3 Vitriol",
                    "Alchemy ingredients obtained", AfterLoot)
    /\ ScenarioStep(AfterLoot,
                    "Geralt learns Swallow potion consists of 3 Vitriol, 2 Rebis",
                    "New alchemy formula obtained: Swallow", AfterRecipe)
    /\ ScenarioStep(AfterRecipe, "Geralt brews Swallow",
                    "Alchemy item created: Swallow", AfterBrew)
    /\ ScenarioStep(AfterBrew, "Total ingredient ?", total, AfterBrew)

\* C28: from the initial state "Geralt loots 5 Rebis, 3 Vitriol" is answered
\* "Alchemy ingredients obtained", then "Geralt learns Swallow potion consists
\* of 3 Vitriol, 2 Rebis" "New alchemy formula obtained: Swallow", then
\* "Geralt brews Swallow" "Alchemy item created: Swallow", and then "Total
\* ingredient ?" is answered "3 Rebis": Vitriol reached 0 and has no entry.
C28_Scenario == [][Scenario("3 Rebis")]_vars

\* the total asked right after the brew of the scenario
C28_Witness ==
    /\ status = "running"
    /\ line = "Total ingredient ?"
    /\ out = "3 Rebis"
    /\ world = AfterBrew

\* C29: after the same three lines from the initial state, "Total
\* ingredient ?" is answered "2 Rebis, 0 Vitriol".
C29_ReadmeExample == [][Scenario("2 Rebis, 0 Vitriol")]_vars

(* Properties of the conversion of the counts.                             *)

\* line l has a token made of digits only
HasCountToken(l) == \E i \in 1..N(l) : CharsOf(Tok[l][i]) \subseteq isdigit

\* C30: a line with count tokens made of digits only, of any length and
\* magnitude, is answered with one response line (that of its command, or
\* INVALID) and the session goes on: no conversion of a count fails.
C30_NoConversionFailure ==
    [][(line' \in GrammarLines /\ HasCountToken(line'))
       => (status' = "running" /\ out' # "")]_vars

(* Properties of the token buffer.                                         *)

\* C31: the classification of every line returns a command type or Invalid
\* and reads only token positions that exist: a line that ends before the
\* tokens its form asks for ("Geralt trades 5", "Geralt trades 1 Harpy
\* trophy", a "learns" line whose last token is "potion") is answered and
\* the session goes on, and no slot past its last token is read.
C31_ClassifierInBounds ==
    [][(line' \in CarryLines /\ words' = Tok[line'])
       => /\ status' = "running"
          /\ \A pad \in Pads[line'] : ~Cls[line'][pad].oob]_vars

\* the formula a recipe line of the vocabulary lists, in the order of the line
ListedBy(l) == LineGroups(Tok[l], PotionToken(Tok[l], 2) + 3)

\* C32: the stored formula of every potion keeps the order in which the
\* line that taught it listed the ingredients: no question and no brew
\* reorders the stored list.
C32_StoredOrder ==
    \A p \in DOMAIN potions :
        \E l \in SentenceLines[5] : RecipeName(l) = p /\ potions[p] = ListedBy(l)

\* the tokens w of the line hold what the handler of sentence kind k reads:
\* every count it converts is a positive integer of digits only, every
\* ingredient, trophy, sign and monster name letters only, and every index
\* a token of the line (W yields no token past the last one)
HandlerFields(w, k) ==
    LET i == PotionToken(w, 2) IN
    CASE k = 0 -> IngredientGroups(w, 2)
      [] k = 1 -> LET starts == TrophyGroupStarts(w, 2)
                      last == CHOOSE x \in starts : \A y \in starts : y <= x
                  IN  /\ \A g \in starts :
                            PositiveInteger(W(w, g)) /\ Alphabetic(W(w, g + 1))
                      /\ W(w, last + 3) = "for"
                      /\ IngredientGroups(w, last + 4)
      [] k = 2 -> Len(w) >= 3 /\ \A j \in 2..(Len(w) - 1) : Alphabetic(W(w, j))
      [] k = 3 -> Alphabetic(W(w, 2)) /\ Alphabetic(W(w, 7))
      [] k = 4 -> Alphabetic(W(w, i + 4))
      [] k = 5 -> IngredientGroups(w, i + 3)
      [] k = 6 -> Alphabetic(W(w, 3))

\* C33: every handler runs only on tokens its validator has checked: on a
\* line answered by the handler of a sentence kind, every token the handler
\* converts to a number is a positive integer of digits only, every
\* ingredient, trophy, sign and monster name it uses is a token of letters
\* only, and every token index it reads is a token of the line.
C33_HandlerFields ==
    [][\A k \in 0..6 :
          (line' \in SentenceLines[k] /\ words' = Tok[line']
                /\ status' = "running" /\ out' # "INVALID")
          => HandlerFields(Tok[line'], k)]_vars

(* Properties of the sentence classifier.                                  *)

\* the tokens w have the form every sentence shares
SentenceForm(w) ==
    /\ Len(w) >= 3
    /\ w[1] = "Geralt"
    /\ w[3] # ","
    /\ w[Len(w)] # ","
    /\ \/ w[2] \in {"loots", "trades", "brews", "learns"}
       \/ w[2] = "encounters" /\ w[3] = "a"

\* C34: no line is accepted as a sentence unless its first token is
\* "Geralt", it has at least three tokens, its token 2 is not "," and its
\* last token is not ",", and its token 1 is "loots", "trades", "brews",
\* "learns", or "encounters" followed by "a": any other line is answered
\* INVALID and changes nothing.
C34_SentenceForm ==
    [][(line' \in SentenceFormLines /\ words' = Tok[line']
            /\ ~SentenceForm(Tok[line']))
       => (status' = "running" /\ out' = "INVALID" /\ world' = world)]_vars

\* an encounter line with "the" in place of "a", rejected although the
\* bestiary holds a sign against the monster
C34_Witness ==
    /\ status = "running"
    /\ line = "Geralt encounters the Harpy"
    /\ out = "INVALID"
    /\ "Harpy" \in DOMAIN monsters /\ "Igni" \in monsters["Harpy"].signs

\* C35: every accepted line that carries a potion name carries a name of at
\* least one token: the empty string is never a key of the potion stock or
\* of the formula book, nor a member of a monster's potion set, and the
\* lines "What is in ?" and "Geralt learns potion consists of 3 Rebis, 2
\* Vitriol" are answered INVALID.
C35_PotionNamePresent ==
    [][/\ "" \notin DOMAIN potion_counts'
       /\ "" \notin DOMAIN potions'
       /\ \A m \in DOMAIN monsters' : "" \notin monsters'[m].potions
       /\ (words' = Tok[line']
              /\ line' \in {"What is in ?",
                            "Geralt learns potion consists of 3 Rebis, 2 Vitriol"})
          => out' = "INVALID"]_vars

(* Properties of the formula book and of the bestiary.                     *)

\* C36: every potion of the formula book has a formula of at least one
\* ingredient, and every quantity of every formula is greater than zero.
C36_FormulaNonEmpty ==
    \A p \in DOMAIN potions :
        /\ Len(potions[p]) >= 1
        /\ \A i \in 1..Len(potions[p]) : potions[p][i][2] > 0

\* a brew of a potion without a formula, asked while the formula book holds
\* another potion
C36_Witness ==
    /\ status = "running"
    /\ W(words, 1) = "brews"
    /\ out = "No formula for " \o JoinWords(words, 2, word_count - 1)
    /\ DOMAIN potions # {}

\* C37: every monster of the bestiary has at least one sign or potion
\* recorded as effective against it.
C37_EntryNonEmpty ==
    \A m \in DOMAIN monsters : monsters[m].signs \cup monsters[m].potions # {}

\* an encounter with a monster the bestiary does not hold, while it holds
\* another one: the encounter is lost and no entry is made for the monster
C37_Witness ==
    /\ status = "running"
    /\ line = "Geralt encounters a Wolf"
    /\ out = "Geralt is unprepared and barely escapes with his life"
    /\ DOMAIN monsters = {"Harpy"}

(* Properties of what a line may change.                                   *)

\* the step reads a line that the handler of sentence kind k answers
Handled(k) ==
    /\ line' \in SentenceLines[k] /\ words' = Tok[line']
    /\ status' = "running" /\ out' # "INVALID"

\* the maps before and after agree on every key but name
SameBut(before, after, name) ==
    \A k \in Keys(before, after) \ {name} :
        /\ k \in DOMAIN before <=> k \in DOMAIN after
        /\ k \in DOMAIN before => before[k] = after[k]

\* C38: a loot line changes only the ingredient ledger; a trade line only
\* the trophy ledger and the ingredient ledger; a brew line only the
\* ingredient ledger and the potion stock; a knowledge line only the
\* bestiary entry of the monster it names; a recipe line only the formula of
\* the potion it names; an encounter line only the potion stock and the
\* trophy count of the monster it names. Hence a trophy count rises only by
\* a won encounter with that monster, and the stock of a potion only by a
\* successful brew of that potion.
C38_Frame ==
    [][/\ Handled(0) => UNCHANGED <<trophies, potion_counts, potions, monsters>>
       /\ Handled(1) => UNCHANGED <<potion_counts, potions, monsters>>
       /\ Handled(2) => UNCHANGED <<trophies, potions, monsters>>
       /\ (Handled(3) \/ Handled(4)) =>
             /\ UNCHANGED <<ingredients, trophies, potion_counts, potions>>
             /\ SameBut(monsters, monsters', Taught(line').monster)
       /\ Handled(5) =>
             /\ UNCHANGED <<ingredients, trophies, potion_counts, monsters>>
             /\ SameBut(potions, potions', RecipeName(line'))
       /\ Handled(6) =>
             /\ UNCHANGED <<ingredients, potions, monsters>>
             /\ SameBut(trophies, trophies', W(Tok[line'], 3))
       /\ \A m \in DOMAIN trophies' :
             get_count(trophies', m) > get_count(trophies, m)
             => Handled(6) /\ out' = "Geralt defeats " \o m
       /\ \A p \in DOMAIN potion_counts' :
             get_count(potion_counts', p) > get_count(potion_counts, p)
             => Handled(2) /\ out' = "Alchemy item created: " \o p]_vars

\* line l is rejected when the token buffer holds nothing past its tokens
RejectedAlone(l) ==
    \/ TypeOf[l] = -1
    \/ l \in QuestionLines[-1]
    \/ TypeOf[l] = 0 /\ Fresh[l].r = -1

\* C39: the answer to a line depends only on its text and on the world
\* before it, never on the tokens an earlier line left in the token buffer:
\* a line is answered INVALID after some lines exactly when it is answered
\* INVALID with nothing read before it.
C39_NoCarryOver ==
    [][(line' \in CarryLines /\ words' = Tok[line'] /\ status' = "running")
       => (out' = "INVALID" <=> RejectedAlone(line'))]_vars

====
